---- MODULE Spec2Model ----
(***************************************************************************)
(* Onkey backend: identity-gated key-share issuance (/auth/login,          *)
(* /auth/verify, /auth/me) and the threshold-signing coordinator           *)
(* (/mpc/sign, signWithMPC), with the durable store (User and Session      *)
(* rows), the identity provider (Stytch OTP) and the remote signer (Lit).  *)
(***************************************************************************)
EXTENDS Integers, Sequences, FiniteSets, TLC

(***************************************************************************)
(* Bounds of the model.                                                    *)
(***************************************************************************)
MaxReq == 2
MaxOtp == 2
MaxTicks == 1
MaxLogin == 4
MaxUp == 2
MaxOps == 2
MaxExec == 1

(***************************************************************************)
(* Program constants.                                                      *)
(***************************************************************************)
JWT_EXPIRY == 3600
KEY_BYTES == 32
DEFAULT_KEY_BYTES == 2
TAG_BYTES == 16
RATE_LIMIT_MAX == 3
RATE_LIMIT_WINDOW == 3600

NULL == "null"
Emails == {"a@x", "b@x"}
ReqIds == 1..MaxReq

(***************************************************************************)
(* Values of the remote signer: the PKP a proven identity owns.  The key   *)
(* id is derived from the auth method, so one identity has one PKP.        *)
(***************************************************************************)
PkpIdOf(identity) == IF identity = "a@x" THEN "pkp-a" ELSE "pkp-b"
PkpPubOf(identity) == IF identity = "a@x" THEN "pub-a" ELSE "pub-b"
MockPkpIds == {"mock-1"}
StartsWithMock(id) == id \in MockPkpIds

(***************************************************************************)
(* Environment: USER_ENCRYPTION_KEY and SERVER_ENCRYPTION_KEY (NULL when   *)
(* not set).  keyBytes is the length of Buffer.from(key, 'hex'): 32 for a  *)
(* 64-hex-character key, and the two leading hex pairs "de","fa" of the    *)
(* default strings.                                                        *)
(***************************************************************************)
DefaultUserKey == "default-user-key-change-in-production"
DefaultServerKey == "default-server-key-change-in-production"
HexKeys == {"ku", "ks", "kx"}
keyBytes(key) == IF key \in HexKeys THEN KEY_BYTES ELSE DEFAULT_KEY_BYTES
EnvConfigured == [user |-> "ku", server |-> "ks"]

(***************************************************************************)
(* AES-256-GCM share encryption.  A ciphertext "iv:body+tag" is a record:  *)
(* body stands for the encryption of a plaintext under a key, tag for the  *)
(* authentication tag over (key, iv, body).  fmt is "empty" for the empty  *)
(* string, "nocolon" for a string that split(':') leaves without its       *)
(* second part.  The string is hex: taglen is the number of bytes that     *)
(* Buffer.from(authTagHex, 'hex') decodes, TAG_BYTES for the 32 hex        *)
(* characters written by encryptShare and fewer when a character of the    *)
(* tag is no hex digit (decoding stops there); form says how the string    *)
(* is written where that changes no decoded byte: as encryptShare wrote    *)
(* it, with hex letters in upper case, or with a further ":..." part       *)
(* (split(':') keeps the first two parts).  setAuthTag accepts a tag of    *)
(* one of the GCM tag lengths and the check then compares that many bytes. *)
(***************************************************************************)
GCM_TAG_LENGTHS == {4, 8, 12, 13, 14, 15, 16}
Forms == {"written", "uppercase", "trailing"}
NoJwt == [sub |-> "", mid |-> 0]
NoPlain == [json |-> FALSE, type |-> "", pkpId |-> "", auth |-> NoJwt, pub |-> "", eth |-> ""]
UserPlainOtherPkp(pkpId, token) ==
    [json |-> TRUE, type |-> "lit-pkp-auth", pkpId |-> "pkp-other", auth |-> token,
     pub |-> "", eth |-> ""]
UserPlain(pkpId, token) ==
    [json |-> TRUE, type |-> "lit-pkp-auth", pkpId |-> pkpId, auth |-> token,
     pub |-> "", eth |-> ""]
ServerPlain(pkpId, pub) ==
    [json |-> TRUE, type |-> "lit-pkp-server", pkpId |-> pkpId, auth |-> NoJwt,
     pub |-> pub, eth |-> pub]
EmptyShare ==
    [fmt |-> "empty", iv |-> 0, bkey |-> "", pt |-> NoPlain,
     tkey |-> "", tiv |-> 0, tpt |-> NoPlain, taglen |-> 0, form |-> "written"]
Throw(e) == [ok |-> FALSE, err |-> e, val |-> EmptyShare, text |-> NoPlain]

encryptShare(text, key, iv) ==
    IF keyBytes(key) # KEY_BYTES
    THEN Throw("Encryption key must be 32 bytes (64 hex characters)")
    ELSE [ok |-> TRUE, err |-> "",
          val |-> [fmt |-> "ok", iv |-> iv, bkey |-> key, pt |-> text,
                   tkey |-> key, tiv |-> iv, tpt |-> text,
                   taglen |-> TAG_BYTES, form |-> "written"],
          text |-> NoPlain]

TagVerifies(c, key) ==
    /\ c.taglen \in GCM_TAG_LENGTHS
    /\ c.tkey = key
    /\ c.tiv = c.iv
    /\ c.bkey = key
    /\ c.tpt = c.pt

decryptShareNoTag(c, key) ==
    IF keyBytes(key) # KEY_BYTES
    THEN Throw("Encryption key must be 32 bytes (64 hex characters)")
    ELSE IF c.fmt # "ok"
    THEN Throw("Invalid encrypted data format")
    ELSE [ok |-> TRUE, err |-> "", val |-> EmptyShare, text |-> c.pt]
decryptShare(c, key) ==
    IF keyBytes(key) # KEY_BYTES
    THEN Throw("Encryption key must be 32 bytes (64 hex characters)")
    ELSE IF c.fmt # "ok"
    THEN Throw("Invalid encrypted data format")
    ELSE IF ~TagVerifies(c, key)
    THEN Throw("Unsupported state or unable to authenticate data")
    ELSE [ok |-> TRUE, err |-> "", val |-> EmptyShare, text |-> c.pt]

(***************************************************************************)
(* utils/encryption: encrypt returns the hex of body+tag and the iv apart; *)
(* decrypt takes the last 32 characters of the data as the tag, so a       *)
(* further part after the tag takes the tag's place.  The pair is held as  *)
(* one record, its iv field being the iv returned or passed.               *)
(***************************************************************************)
encrypt(text, key, iv) == encryptShare(text, key, iv)
decrypt(encryptedData, iv, key) ==
    IF keyBytes(key) # KEY_BYTES
    THEN Throw("Encryption key must be 32 bytes (64 hex characters)")
    ELSE IF encryptedData.fmt # "ok" \/ encryptedData.form = "trailing"
    THEN Throw("Unsupported state or unable to authenticate data")
    ELSE IF ~TagVerifies([encryptedData EXCEPT !.iv = iv], key)
    THEN Throw("Unsupported state or unable to authenticate data")
    ELSE [ok |-> TRUE, err |-> "", val |-> EmptyShare, text |-> encryptedData.pt]

(***************************************************************************)
(* keystore, legacy functions: the share encrypted with ENCRYPTION_KEY in  *)
(* the columns encryptedKeyShare and keyShareIV of the user's row.         *)
(***************************************************************************)
NoKeyShareRow == [encryptedKeyShare |-> EmptyShare, keyShareIV |-> 0]
storeServerKeyShare(row, keyShare, key, iv) ==
    LET e == encrypt(keyShare, key, iv) IN
    IF e.ok THEN [encryptedKeyShare |-> e.val, keyShareIV |-> e.val.iv] ELSE row
getServerKeyShare(row, key) ==
    IF row.encryptedKeyShare.fmt = "empty" \/ row.keyShareIV = 0
    THEN Throw("Key share not found for user")
    ELSE decrypt(row.encryptedKeyShare, row.keyShareIV, key)

(***************************************************************************)
(* The remote signer as signWithMPC sees it: whether the client connects,  *)
(* whether it exposes pkpSign, and what pkpSign answers.                   *)
(***************************************************************************)
PkpSignAnswers == {"signature", "empty", "throws"}
LitBehaviours == [connects : BOOLEAN, hasPkpSign : BOOLEAN, answer : PkpSignAnswers]
LitHealthy == [connects |-> TRUE, hasPkpSign |-> TRUE, answer |-> "signature"]
NoSig == [pub |-> "", hash |-> "", auth |-> NoJwt]
SignatureOf(pub, hash, auth) == [pub |-> pub, hash |-> hash, auth |-> auth]
TypeHasMock(t) == t = "mock-share"
SignFail(e, calls) == [ok |-> FALSE, err |-> e, sig |-> NoSig, calls |-> calls]

pkpSignStageNoKeyCheck(u, s, messageHash, lit) ==
    IF ~lit.hasPkpSign THEN SignFail("Lit client does not expose pkpSign method", 0)
    ELSE IF lit.answer = "throws" THEN SignFail("pkpSign failed", 1)
    ELSE IF lit.answer = "empty" THEN SignFail("EMPTY_SIGNATURE_FROM_PKP_SIGN", 1)
    ELSE [ok |-> TRUE, err |-> "", calls |-> 1,
          sig |-> SignatureOf(s.pub, messageHash, u.auth)]
pkpSignStageRetry(u, s, messageHash, lit) ==
    LET pkpPublicKey == IF s.pub # "" THEN s.pub ELSE s.eth IN
    IF ~lit.hasPkpSign THEN SignFail("Lit client does not expose pkpSign method", 0)
    ELSE IF pkpPublicKey = "" THEN SignFail("PKP_PUBLIC_KEY_MISSING", 0)
    ELSE IF lit.answer = "throws" THEN SignFail("pkpSign failed", 2)
    ELSE IF lit.answer = "empty" THEN SignFail("EMPTY_SIGNATURE_FROM_PKP_SIGN", 2)
    ELSE [ok |-> TRUE, err |-> "", calls |-> 1,
          sig |-> SignatureOf(pkpPublicKey, messageHash, u.auth)]
pkpSignStage(u, s, messageHash, lit) ==
    LET pkpPublicKey == IF s.pub # "" THEN s.pub ELSE s.eth IN
    IF ~lit.hasPkpSign THEN SignFail("Lit client does not expose pkpSign method", 0)
    ELSE IF pkpPublicKey = "" THEN SignFail("PKP_PUBLIC_KEY_MISSING", 0)
    ELSE IF lit.answer = "throws" THEN SignFail("pkpSign failed", 1)
    ELSE IF lit.answer = "empty" THEN SignFail("EMPTY_SIGNATURE_FROM_PKP_SIGN", 1)
    ELSE [ok |-> TRUE, err |-> "", calls |-> 1,
          sig |-> SignatureOf(pkpPublicKey, messageHash, u.auth)]

validateStageNoMock(u, s, messageHash, lit) ==
    IF ~u.json THEN SignFail("USER_SHARE_JSON_INVALID", 0)
    ELSE IF ~s.json THEN SignFail("SERVER_SHARE_JSON_INVALID", 0)
    ELSE IF u.pkpId = "" \/ s.pkpId = "" THEN SignFail("PKP_ID_MISSING_IN_SHARES", 0)
    ELSE IF u.pkpId # s.pkpId THEN SignFail("PKP_ID_MISMATCH", 0)
    ELSE pkpSignStage(u, s, messageHash, lit)
validateStage(u, s, messageHash, lit) ==
    IF ~u.json THEN SignFail("USER_SHARE_JSON_INVALID", 0)
    ELSE IF ~s.json THEN SignFail("SERVER_SHARE_JSON_INVALID", 0)
    ELSE IF u.pkpId = "" \/ s.pkpId = "" THEN SignFail("PKP_ID_MISSING_IN_SHARES", 0)
    ELSE IF u.pkpId # s.pkpId THEN SignFail("PKP_ID_MISMATCH", 0)
    ELSE IF TypeHasMock(u.type) \/ TypeHasMock(s.type) THEN SignFail("MOCK_PKP_REFUSED", 0)
    ELSE pkpSignStage(u, s, messageHash, lit)

signWithMPCWorkingDefault(userShare, serverShare, messageHash, env, lit) ==
    LET userKey == IF env.user # NULL THEN env.user ELSE "ku"
        serverKey == IF env.server # NULL THEN env.server ELSE "ks"
        du == decryptShare(userShare, userKey)
        ds == decryptShare(serverShare, serverKey)
    IN  IF ~lit.connects THEN SignFail("Failed to initialize Lit Protocol client", 0)
        ELSE IF ~du.ok THEN SignFail("USER_SHARE_DECRYPT_FAILED", 0)
        ELSE IF ~ds.ok THEN SignFail("SERVER_SHARE_DECRYPT_FAILED", 0)
        ELSE validateStage(du.text, ds.text, messageHash, lit)
signWithMPC(userShare, serverShare, messageHash, env, lit) ==
    LET userKey == IF env.user # NULL THEN env.user ELSE DefaultUserKey
        serverKey == IF env.server # NULL THEN env.server ELSE DefaultServerKey
        du == decryptShare(userShare, userKey)
        ds == decryptShare(serverShare, serverKey)
    IN  IF ~lit.connects THEN SignFail("Failed to initialize Lit Protocol client", 0)
        ELSE IF ~du.ok THEN SignFail("USER_SHARE_DECRYPT_FAILED", 0)
        ELSE IF ~ds.ok THEN SignFail("SERVER_SHARE_DECRYPT_FAILED", 0)
        ELSE validateStage(du.text, ds.text, messageHash, lit)

(***************************************************************************)
(* The durable store.  A User row; users is the sequence of rows, a row's  *)
(* id its index.  Absent column values are NULL (EmptyShare for the share  *)
(* column).                                                                *)
(***************************************************************************)
NewUserRow(email) ==
    [email |-> email, emailVerified |-> TRUE, pkpId |-> NULL, pkpPublicKey |-> NULL,
     pkpEthAddress |-> NULL, encryptedServerShare |-> EmptyShare,
     smartAccountAddress |-> NULL]
findUniqueByEmail(rows, email) ==
    IF \E i \in 1..Len(rows) : rows[i].email = email
    THEN CHOOSE i \in 1..Len(rows) : rows[i].email = email
    ELSE 0

NoPkpInfo ==
    [found |-> FALSE, pkpId |-> NULL, pkpPublicKey |-> NULL, pkpEthAddress |-> NULL,
     encryptedServerShare |-> EmptyShare]
getPKPInfoLastRow(rows, userId) ==
    IF Len(rows) = 0 \/ rows[Len(rows)].pkpId = NULL
    THEN NoPkpInfo
    ELSE [found |-> TRUE, pkpId |-> rows[Len(rows)].pkpId,
          pkpPublicKey |-> rows[Len(rows)].pkpPublicKey,
          pkpEthAddress |-> rows[Len(rows)].pkpEthAddress,
          encryptedServerShare |-> rows[Len(rows)].encryptedServerShare]
getPKPInfo(rows, userId) ==
    IF \/ userId \notin 1..Len(rows)
       \/ rows[userId].pkpId = NULL
       \/ rows[userId].pkpPublicKey = NULL
       \/ rows[userId].pkpEthAddress = NULL
    THEN NoPkpInfo
    ELSE [found |-> TRUE, pkpId |-> rows[userId].pkpId,
          pkpPublicKey |-> rows[userId].pkpPublicKey,
          pkpEthAddress |-> rows[userId].pkpEthAddress,
          encryptedServerShare |-> rows[userId].encryptedServerShare]

(***************************************************************************)
(* Session tokens: a JWT over {userId, email} with iat and exp = iat +      *)
(* JWT_EXPIRY, signed with the server secret.  An Authorization header is  *)
(* missing, not a Bearer header, a Bearer of something that is no JWT, or  *)
(* a Bearer of a JWT (whose signature may be forged).                      *)
(***************************************************************************)
NoToken == [userId |-> 0, email |-> "", iat |-> 0, sig |-> "none"]
createSessionToken(userId, email, now) ==
    [userId |-> userId, email |-> email, iat |-> now, sig |-> "server"]
verifySessionTokenNoExpiry(token, now) ==
    token.sig = "server"
verifySessionToken(token, now) ==
    /\ token.sig = "server"
    /\ now < token.iat + JWT_EXPIRY
HeaderKinds == {"missing", "notbearer", "garbage", "bearer"}
authenticateNoVerify(hdr, now) ==
    IF hdr.kind \in {"missing", "notbearer"}
    THEN [ok |-> FALSE, status |-> 401, message |-> "Missing or invalid authorization header",
          user |-> NoToken]
    ELSE [ok |-> TRUE, status |-> 200, message |-> "", user |-> hdr.tok]
authenticate(hdr, now) ==
    IF hdr.kind \in {"missing", "notbearer"}
    THEN [ok |-> FALSE, status |-> 401, message |-> "Missing or invalid authorization header",
          user |-> NoToken]
    ELSE IF hdr.kind = "garbage" \/ ~verifySessionToken(hdr.tok, now)
    THEN [ok |-> FALSE, status |-> 401, message |-> "Invalid or expired session token",
          user |-> NoToken]
    ELSE [ok |-> TRUE, status |-> 200, message |-> "", user |-> hdr.tok]

(***************************************************************************)
(* POST /mpc/sign.  The body schema is validated before the preHandler     *)
(* runs; the handler reads the store once and writes nothing.              *)
(***************************************************************************)
SignReply(status, stage, message, sig, calls, ran) ==
    [status |-> status, success |-> status = 200, stage |-> stage, message |-> message,
     signature |-> sig, pkpSignCalls |-> calls, handlerRan |-> ran]

signHandlerShareFirst(userId, body, rows, env, lit) ==
    LET pkpInfo == getPKPInfo(rows, userId)
        res == signWithMPC(body.userShare, pkpInfo.encryptedServerShare,
                           body.userOpHash, env, lit)
    IN  IF ~pkpInfo.found
        THEN SignReply(500, "pkp_lookup", "Failed to load PKP info", NoSig, 0, TRUE)
        ELSE IF pkpInfo.encryptedServerShare.fmt = "empty"
        THEN SignReply(500, "server_share",
                       "Missing encrypted server share - MPC not initialized", NoSig, 0, TRUE)
        ELSE IF StartsWithMock(pkpInfo.pkpId)
        THEN SignReply(500, "pkp_validation", "Mock PKP detected - real MPC required",
                       NoSig, 0, TRUE)
        ELSE IF ~res.ok
        THEN SignReply(500, "mpc_signing", "Lit MPC signing failed", NoSig, res.calls, TRUE)
        ELSE SignReply(200, "", "", res.sig, res.calls, TRUE)
signHandler(userId, body, rows, env, lit) ==
    LET pkpInfo == getPKPInfo(rows, userId)
        res == signWithMPC(body.userShare, pkpInfo.encryptedServerShare,
                           body.userOpHash, env, lit)
    IN  IF ~pkpInfo.found
        THEN SignReply(500, "pkp_lookup", "Failed to load PKP info", NoSig, 0, TRUE)
        ELSE IF StartsWithMock(pkpInfo.pkpId)
        THEN SignReply(500, "pkp_validation", "Mock PKP detected - real MPC required",
                       NoSig, 0, TRUE)
        ELSE IF pkpInfo.encryptedServerShare.fmt = "empty"
        THEN SignReply(500, "server_share",
                       "Missing encrypted server share - MPC not initialized", NoSig, 0, TRUE)
        ELSE IF ~res.ok
        THEN SignReply(500, "mpc_signing", "Lit MPC signing failed", NoSig, res.calls, TRUE)
        ELSE SignReply(200, "", "", res.sig, res.calls, TRUE)

mpcSign(hdr, body, now, rows, env, lit) ==
    LET a == authenticate(hdr, now) IN
    IF ~body.valid THEN SignReply(400, "", "Bad Request", NoSig, 0, FALSE)
    ELSE IF ~a.ok THEN SignReply(a.status, "", a.message, NoSig, 0, FALSE)
    ELSE signHandler(a.user.userId, body, rows, env, lit)

(***************************************************************************)
(* generateMPCKeyShares.  gen says how the remote signer behaves during    *)
(* the call: whether the client connects, what fetchPkpsThroughRelayer and *)
(* claimKeyId answer.  The PKP belongs to the identity the Stytch token    *)
(* proves (stytchToken.sub); the email argument is only logged.            *)
(***************************************************************************)
FetchAnswers == {"unavailable", "throws", "empty", "found", "partial"}
ClaimAnswers == {"claimed", "throws", "noresponse", "partial", "nomethod"}
GenBehaviours == [connects : BOOLEAN, fetch : FetchAnswers, claim : ClaimAnswers]
NoGen ==
    [ok |-> FALSE, err |-> "", userShare |-> EmptyShare, serverShare |-> EmptyShare,
     publicKey |-> NULL, pkpId |-> NULL, pkpEthAddress |-> NULL,
     fetchCalls |-> 0, claimCalls |-> 0, claimed |-> FALSE]
NoKeys ==
    [userShare |-> EmptyShare, serverShare |-> EmptyShare, publicKey |-> NULL,
     pkpId |-> NULL, pkpEthAddress |-> NULL]
KeysOf(res) ==
    [userShare |-> res.userShare, serverShare |-> res.serverShare,
     publicKey |-> res.publicKey, pkpId |-> res.pkpId, pkpEthAddress |-> res.pkpEthAddress]
GenFail(e, fetchCalls, claimCalls, claimed) ==
    [NoGen EXCEPT !.err = e, !.fetchCalls = fetchCalls, !.claimCalls = claimCalls,
                  !.claimed = claimed]

generateMPCKeyShares(email, stytchToken, env, gen, iv) ==
    LET fetchCalls == IF gen.fetch = "unavailable" THEN 0 ELSE 1
        existing == gen.fetch = "found"
        claimOk == gen.claim = "claimed"
        pkpId == PkpIdOf(stytchToken.sub)
        pkpPublicKey == PkpPubOf(stytchToken.sub)
        userShare == encryptShare(UserPlain(pkpId, stytchToken), env.user, iv)
        serverShare == encryptShare(ServerPlain(pkpId, pkpPublicKey), env.server, iv)
        claimCalls == IF existing \/ gen.claim = "nomethod" THEN 0 ELSE 1
        claimed == ~existing /\ claimOk
    IN  IF ~gen.connects THEN GenFail("Failed to initialize Lit Protocol client", 0, 0, FALSE)
        ELSE IF email = "" THEN GenFail("Email is required for PKP minting", 0, 0, FALSE)
        ELSE IF stytchToken = NoJwt
        THEN GenFail("Stytch authentication token required for PKP minting", 0, 0, FALSE)
        ELSE IF ~existing /\ gen.claim = "nomethod"
        THEN GenFail("Lit client does not expose claimKeyId method", fetchCalls, 0, FALSE)
        ELSE IF ~existing /\ gen.claim = "throws"
        THEN GenFail("claimKeyId failed", fetchCalls, 1, FALSE)
        ELSE IF ~existing /\ gen.claim = "noresponse"
        THEN GenFail("claimKeyId returned no response", fetchCalls, 1, FALSE)
        ELSE IF ~existing /\ gen.claim = "partial"
        THEN GenFail("Failed to extract PKP details from claim response", fetchCalls, 1, TRUE)
        ELSE IF env.user = NULL \/ env.server = NULL
        THEN GenFail("Encryption keys not configured", fetchCalls, claimCalls, claimed)
        ELSE IF ~userShare.ok THEN GenFail(userShare.err, fetchCalls, claimCalls, claimed)
        ELSE IF ~serverShare.ok THEN GenFail(serverShare.err, fetchCalls, claimCalls, claimed)
        ELSE [ok |-> TRUE, err |-> "", userShare |-> userShare.val,
              serverShare |-> serverShare.val, publicKey |-> pkpPublicKey,
              pkpId |-> pkpId, pkpEthAddress |-> pkpPublicKey,
              fetchCalls |-> fetchCalls, claimCalls |-> claimCalls, claimed |-> claimed]

(***************************************************************************)
(* storePKPInfo: one update of the user's row.                             *)
(***************************************************************************)
storePKPInfo(rows, userId, pkpData) ==
    [rows EXCEPT ![userId].pkpId = pkpData.pkpId,
                 ![userId].pkpPublicKey = pkpData.pkpPublicKey,
                 ![userId].pkpEthAddress = pkpData.pkpEthAddress]

(***************************************************************************)
(* State.                                                                  *)
(*   users, sessions   the store: User rows, Session rows (by token)       *)
(*   otps              the identity provider's challenges, by method id    *)
(*   minted            the identities the remote signer holds a PKP for    *)
(*   reqs              the /auth/verify requests: position and locals;     *)
(*                     authCalls, genCalls count the provider and key      *)
(*                     generation calls made, wrotePkp says storePKPInfo   *)
(*                     ran, replayed that the request presented the right  *)
(*                     code of a challenge already consumed                *)
(*   now, ticks        the clock (seconds) and the number of its steps     *)
(*   env               the process environment                            *)
(*   rpc               the /mpc/sign or /auth/me call just answered        *)
(*   hits              the rate limiter's store: per key, the requests     *)
(*                     counted in the current window and the window's start *)
(*   call              the encryption-service call under test              *)
(*   up                the requests waiting for an upstream network call   *)
(*   sdk               the browser: OnkeyClient's fields, localStorage,    *)
(*                     the IndexedDB key-share store, the provider's       *)
(*                     state and the SDK calls in flight                   *)
(*   chain             the contracts: deployed accounts, events emitted,   *)
(*                     the last transaction's outcome                      *)
(***************************************************************************)
VARIABLES users, sessions, otps, minted, reqs, now, ticks, env, rpc, hits, call,
          up, sdk, chain

vars == <<users, sessions, otps, minted, reqs, now, ticks, env, rpc, hits, call,
          up, sdk, chain>>

NoResp ==
    [status |-> 0, success |-> FALSE, message |-> "", token |-> NoToken,
     smartAccountAddress |-> NULL, isNewUser |-> FALSE, userShare |-> EmptyShare,
     hasUserShare |-> FALSE]
ErrorResp(status, message) == [NoResp EXCEPT !.status = status, !.message = message]
NoReq ==
    [pc |-> "idle", email |-> "", jwt |-> NoJwt, authCalls |-> 0, uid |-> 0,
     addr |-> NULL, isNewUser |-> FALSE, gen |-> NoKeys, genCalls |-> 0,
     wrotePkp |-> FALSE, replayed |-> FALSE, resp |-> NoResp]

NoHeader == [kind |-> "missing", tok |-> NoToken]
NoBody == [valid |-> FALSE, userOpHash |-> "", userShare |-> EmptyShare]
NoRpc ==
    [route |-> "none", hdr |-> NoHeader, body |-> NoBody, lit |-> LitHealthy,
     reply |-> SignReply(0, "", "", NoSig, 0, FALSE), email |-> NULL, address |-> NULL]

(***************************************************************************)
(* The rate limiter of the auth routes.  authRoutes registers the plugin   *)
(* without awaiting it and then declares its routes; a plugin registered   *)
(* inside a plugin and not awaited is loaded when the body of the          *)
(* enclosing plugin has returned, and the limiter attaches its hook        *)
(* through onRoute, that is to the routes declared after it was loaded.    *)
(* The hook runs at onRequest, before the body is parsed: keyGenerator     *)
(* sees no body there and falls back to the client's address.  The store   *)
(* counts the requests of a key in a window that starts with the key's     *)
(* first request.                                                          *)
(***************************************************************************)
Ips == {"ip1", "ip2"}
RateKeys == Ips \cup Emails
AuthRoutesBody == <<"register rate-limit", "route /login", "route /verify", "route /me">>
IsRegister(e) == e = "register rate-limit"
IsRoute(e) == ~IsRegister(e)
BootOrder(body) == SelectSeq(body, IsRoute) \o <<"load rate-limit">>
RateLimitedRoutes ==
    LET order == BootOrder(AuthRoutesBody) IN
    {order[j] : j \in {k \in 1..Len(order) :
                          \E i \in 1..(k - 1) : order[i] = "load rate-limit"}}
keyGenerator(req) == IF req.body # NULL THEN req.body ELSE req.ip
NoHits == [k \in RateKeys |-> [count |-> 0, start |-> 0]]
rateLimit(route, req, store, t) ==
    LET key == keyGenerator(req)
        cur == IF store[key].count = 0 \/ t >= store[key].start + RATE_LIMIT_WINDOW
               THEN [count |-> 0, start |-> t]
               ELSE store[key]
        count == IF cur.count < RATE_LIMIT_MAX + 1 THEN cur.count + 1 ELSE cur.count
    IN  IF route \notin RateLimitedRoutes
        THEN [allowed |-> TRUE, store |-> store]
        ELSE [allowed |-> cur.count < RATE_LIMIT_MAX,
              store |-> [store EXCEPT ![key] = [count |-> count, start |-> cur.start]]]

(***************************************************************************)
(* The requests as they wait for upstream network calls (the identity      *)
(* provider, the remote signer): a request's route, the awaited call it is *)
(* at, the answer that arrived, whether a call of it ended by the          *)
(* transport giving up, and the reply sent; lit says litNodeClient is set. *)
(***************************************************************************)
UpIds == 1..MaxUp
NoUpCall ==
    [route |-> "none", pc |-> "idle", isNewUser |-> FALSE, step |-> "", answer |-> "none",
     timedOut |-> FALSE, status |-> 0, stage |-> "", message |-> ""]
NoUp == [lit |-> FALSE, calls |-> [c \in UpIds |-> NoUpCall]]

(***************************************************************************)
(* The browser side.  OnkeyClient keeps token, smartAccountAddress and the *)
(* cached smartAccountClient (set when not null, with the address of the   *)
(* account it was created for); localStorage holds the                    *)
(* items onkey_token and onkey_address; idb is the IndexedDB database      *)
(* 'onkey': not created yet, created without the keyShares store, the      *)
(* store empty, or the share stored under 'userShare'.  isLoading and      *)
(* address are OnkeyProvider's state; ops are the SDK calls in flight.     *)
(***************************************************************************)
OpIds == 1..MaxOps
NoOp == [kind |-> "none", pc |-> "idle", token |-> NULL, address |-> NULL,
         isNewUser |-> FALSE, userShare |-> NULL]
NoClient == [set |-> FALSE, address |-> NULL]
NoSdk ==
    [token |-> NULL, smartAccountAddress |-> NULL, smartAccountClient |-> NoClient,
     localStorage |-> [onkey_token |-> NULL, onkey_address |-> NULL],
     idb |-> "nodb", isLoading |-> FALSE, address |-> NULL,
     ops |-> [o \in OpIds |-> NoOp]]

(***************************************************************************)
(* The chain.  An address is the CREATE2 preimage (deployer, salt, hash of *)
(* the init code, the init code being the account's creation code with the *)
(* constructor arguments), so two addresses are equal when their preimages *)
(* are.  accounts are the deployed OnkeyAccount contracts, events the      *)
(* AccountCreated events in order, last the outcome of the last call.      *)
(***************************************************************************)
EntryPoint == "entrypoint"
Factory == "factory"
NoAddress == [deployer |-> "", salt |-> 0, initCode |-> [entryPoint |-> "", owner |-> ""]]
NoTx ==
    [op |-> "none", sender |-> "", owner |-> "", salt |-> 0, account |-> NoAddress,
     predicted |-> NoAddress, ret |-> NoAddress, validationData |-> 0, signer |-> "",
     reverted |-> FALSE, deployed |-> FALSE, emitted |-> FALSE, called |-> 0]
NoChain == [accounts |-> {}, events |-> <<>>, last |-> NoTx]

NoCall ==
    [op |-> "none", x |-> NoPlain, key |-> "", stored |-> EmptyShare,
     presented |-> EmptyShare, dkey |-> "", tamper |-> "none",
     done |-> FALSE, ok |-> FALSE, text |-> NoPlain]

Init ==
    /\ users = <<>>
    /\ sessions = {}
    /\ otps = <<>>
    /\ minted = {}
    /\ reqs = [r \in ReqIds |-> NoReq]
    /\ now = 0
    /\ ticks = 0
    /\ env = EnvConfigured
    /\ rpc = NoRpc
    /\ hits = NoHits
    /\ call = NoCall
    /\ up = NoUp
    /\ sdk = NoSdk
    /\ chain = NoChain


(***************************************************************************)
(* The identity provider.  /auth/login: the limiter's hook when the route   *)
(* has one, then createStytchEmailOTP sends a code to the address and      *)
(* returns the challenge's method id; at records when the challenge was    *)
(* sent.                                                                   *)
(***************************************************************************)
Login(email, ip) ==
    LET lim == rateLimit("route /login", [body |-> NULL, ip |-> ip], hits, now) IN
    /\ hits' = lim.store
    /\ otps' = IF lim.allowed
               THEN Append(otps, [email |-> email, consumed |-> FALSE, at |-> now])
               ELSE otps
    /\ rpc' = NoRpc
    /\ UNCHANGED <<users, sessions, minted, reqs, now, ticks, env, call, up, sdk, chain>>

(***************************************************************************)
(* getStytchAuthToken: the provider accepts a code once, for the challenge *)
(* it was sent for, and answers with a session_jwt for the challenge's     *)
(* address.                                                                *)
(***************************************************************************)
ProviderAccepts(methodId, code) ==
    /\ methodId \in 1..Len(otps)
    /\ code = "right"
    /\ ~otps[methodId].consumed
getStytchAuthToken(methodId, code) ==
    IF ProviderAccepts(methodId, code)
    THEN [sub |-> otps[methodId].email, mid |-> methodId]
    ELSE NoJwt

(***************************************************************************)
(* POST /auth/verify, one action per await of the handler.  A request that *)
(* ends keeps its response and what it did, not its other locals.          *)
(***************************************************************************)
Started == Cardinality({r \in ReqIds : reqs[r].pc # "idle"})
Fail(r, status, message) ==
    reqs' = [reqs EXCEPT ![r].pc = "done", ![r].gen = NoKeys,
                         ![r].resp = ErrorResp(status, message)]

\* lines 104-116: authenticate the OTP with the provider
VerifyAuthenticateSwallow(r, email, methodId, code) ==
    LET jwt == getStytchAuthToken(methodId, code)
        replay == /\ methodId \in 1..Len(otps)
                  /\ code = "right"
                  /\ otps[methodId].consumed
    IN
    /\ reqs[r].pc = "idle"
    /\ r = Started + 1
    /\ reqs' = [reqs EXCEPT ![r] =
           [NoReq EXCEPT !.pc = "find", !.email = email, !.authCalls = 1,
                         !.replayed = replay, !.jwt = jwt]]
    /\ otps' = IF jwt = NoJwt THEN otps ELSE [otps EXCEPT ![methodId].consumed = TRUE]
    /\ rpc' = NoRpc
    /\ UNCHANGED <<users, sessions, minted, now, ticks, env, hits, call, up, sdk, chain>>
VerifyAuthenticate(r, email, methodId, code) ==
    LET jwt == getStytchAuthToken(methodId, code)
        replay == /\ methodId \in 1..Len(otps)
                  /\ code = "right"
                  /\ otps[methodId].consumed
    IN
    /\ reqs[r].pc = "idle"
    /\ r = Started + 1
    /\ IF jwt = NoJwt
       THEN /\ reqs' = [reqs EXCEPT ![r] =
                   [NoReq EXCEPT !.pc = "done", !.email = email, !.authCalls = 1,
                                 !.replayed = replay,
                                 !.resp = ErrorResp(400, "Invalid or expired OTP code")]]
            /\ otps' = otps
       ELSE /\ reqs' = [reqs EXCEPT ![r] =
                   [NoReq EXCEPT !.pc = "find", !.email = email, !.authCalls = 1,
                                 !.jwt = jwt]]
            /\ otps' = [otps EXCEPT ![methodId].consumed = TRUE]
    /\ rpc' = NoRpc
    /\ UNCHANGED <<users, sessions, minted, now, ticks, env, hits, call, up, sdk, chain>>

\* lines 119-121, 139: findUnique by email; isNewUser from the row read
VerifyFindUserAlwaysNew(r) ==
    LET i == findUniqueByEmail(users, reqs[r].email) IN
    /\ reqs[r].pc = "find"
    /\ reqs' = [reqs EXCEPT
           ![r].uid = i,
           ![r].addr = IF i = 0 THEN NULL ELSE users[i].smartAccountAddress,
           ![r].isNewUser = TRUE,
           ![r].pc = IF i = 0 \/ ~users[i].emailVerified THEN "upsert" ELSE "gen"]
    /\ rpc' = NoRpc
    /\ UNCHANGED <<users, sessions, otps, minted, now, ticks, env, hits, call, up, sdk, chain>>
VerifyFindUser(r) ==
    LET i == findUniqueByEmail(users, reqs[r].email) IN
    /\ reqs[r].pc = "find"
    /\ reqs' = [reqs EXCEPT
           ![r].uid = i,
           ![r].addr = IF i = 0 THEN NULL ELSE users[i].smartAccountAddress,
           ![r].isNewUser = IF i = 0 THEN TRUE ELSE users[i].smartAccountAddress = NULL,
           ![r].pc = IF i = 0 \/ ~users[i].emailVerified THEN "upsert"
                     ELSE IF users[i].smartAccountAddress = NULL THEN "gen" ELSE "sess"]
    /\ rpc' = NoRpc
    /\ UNCHANGED <<users, sessions, otps, minted, now, ticks, env, hits, call, up, sdk, chain>>

\* lines 123-137: create the row (unique email), or mark the email verified
VerifyUpsertUserNoIndex(r) ==
    /\ reqs[r].pc = "upsert"
    /\ IF reqs[r].uid # 0
       THEN /\ users' = [users EXCEPT ![reqs[r].uid].emailVerified = TRUE]
            /\ reqs' = [reqs EXCEPT ![r].pc = IF reqs[r].isNewUser THEN "gen" ELSE "sess"]
       ELSE /\ users' = Append(users, NewUserRow(reqs[r].email))
            /\ reqs' = [reqs EXCEPT ![r].uid = Len(users) + 1, ![r].pc = "gen"]
    /\ rpc' = NoRpc
    /\ UNCHANGED <<sessions, otps, minted, now, ticks, env, hits, call, up, sdk, chain>>
VerifyUpsertUser(r) ==
    /\ reqs[r].pc = "upsert"
    /\ IF reqs[r].uid # 0
       THEN /\ users' = [users EXCEPT ![reqs[r].uid].emailVerified = TRUE]
            /\ reqs' = [reqs EXCEPT ![r].pc = IF reqs[r].isNewUser THEN "gen" ELSE "sess"]
       ELSE IF findUniqueByEmail(users, reqs[r].email) # 0
       THEN /\ users' = users
            /\ Fail(r, 500, "Failed to verify OTP")
       ELSE /\ users' = Append(users, NewUserRow(reqs[r].email))
            /\ reqs' = [reqs EXCEPT ![r].uid = Len(users) + 1, ![r].pc = "gen"]
    /\ rpc' = NoRpc
    /\ UNCHANGED <<sessions, otps, minted, now, ticks, env, hits, call, up, sdk, chain>>

\* lines 143-155: the stytchToken in hand (line 146), generateMPCKeyShares
VerifyGenerateKeepGoing(r, gen) ==
    LET stytchToken == reqs[r].jwt
        res == generateMPCKeyShares(reqs[r].email, stytchToken, env, gen, r)
    IN
    /\ reqs[r].pc = "gen"
    /\ gen.fetch = "found" => stytchToken.sub \in minted
    /\ minted' = IF res.claimed THEN minted \cup {stytchToken.sub} ELSE minted
    /\ reqs' = [reqs EXCEPT ![r].gen = KeysOf(res), ![r].genCalls = 1, ![r].pc = "store"]
    /\ rpc' = NoRpc
    /\ UNCHANGED <<users, sessions, otps, now, ticks, env, hits, call, up, sdk, chain>>
VerifyGenerate(r, gen) ==
    LET stytchToken == reqs[r].jwt
        res == generateMPCKeyShares(reqs[r].email, stytchToken, env, gen, r)
    IN
    /\ reqs[r].pc = "gen"
    /\ gen.fetch = "found" => stytchToken.sub \in minted
    /\ minted' = IF res.claimed THEN minted \cup {stytchToken.sub} ELSE minted
    /\ IF res.ok
       THEN reqs' = [reqs EXCEPT ![r].gen = KeysOf(res), ![r].genCalls = 1, ![r].pc = "store"]
       ELSE reqs' = [reqs EXCEPT ![r].genCalls = 1, ![r].pc = "done",
                                 ![r].resp = ErrorResp(500, "Failed to generate wallet")]
    /\ rpc' = NoRpc
    /\ UNCHANGED <<users, sessions, otps, now, ticks, env, hits, call, up, sdk, chain>>

\* lines 157-163: storePKPInfo
VerifyStorePKP(r) ==
    /\ reqs[r].pc = "store"
    /\ users' = storePKPInfo(users, reqs[r].uid,
                    [pkpId |-> reqs[r].gen.pkpId, pkpPublicKey |-> reqs[r].gen.publicKey,
                     pkpEthAddress |-> reqs[r].gen.pkpEthAddress,
                     encryptedServerShare |-> reqs[r].gen.serverShare])
    /\ reqs' = [reqs EXCEPT ![r].wrotePkp = TRUE, ![r].pc = "addr"]
    /\ rpc' = NoRpc
    /\ UNCHANGED <<sessions, otps, minted, now, ticks, env, hits, call, up, sdk, chain>>

\* lines 165-176: smartAccountAddress = publicKey (a unique column)
VerifyUpdateAddress(r) ==
    LET smartAccountAddress == reqs[r].gen.publicKey
        taken == \E j \in 1..Len(users) :
                    j # reqs[r].uid /\ users[j].smartAccountAddress = smartAccountAddress
    IN
    /\ reqs[r].pc = "addr"
    /\ IF taken
       THEN /\ users' = users
            /\ Fail(r, 500, "Failed to generate wallet")
       ELSE /\ users' = [users EXCEPT ![reqs[r].uid].smartAccountAddress = smartAccountAddress]
            /\ reqs' = [reqs EXCEPT ![r].addr = smartAccountAddress, ![r].pc = "sess"]
    /\ rpc' = NoRpc
    /\ UNCHANGED <<sessions, otps, minted, now, ticks, env, hits, call, up, sdk, chain>>

\* lines 195-223: session token, Session row (unique token), the response
VerifySessionLeak(r) ==
    LET token == createSessionToken(reqs[r].uid, reqs[r].email, now) IN
    /\ reqs[r].pc = "sess"
    /\ IF token \in sessions
       THEN /\ sessions' = sessions
            /\ Fail(r, 500, "Failed to verify OTP")
       ELSE /\ sessions' = sessions \cup {token}
            /\ reqs' = [reqs EXCEPT
                   ![r].pc = "done",
                   ![r].resp =
                       [status |-> 200, success |-> TRUE, message |-> "",
                        token |-> token, smartAccountAddress |-> reqs[r].addr,
                        isNewUser |-> reqs[r].isNewUser,
                        userShare |-> IF reqs[r].isNewUser THEN reqs[r].gen.serverShare
                                      ELSE EmptyShare,
                        hasUserShare |-> reqs[r].isNewUser
                                         /\ reqs[r].gen.userShare # EmptyShare]]
    /\ rpc' = NoRpc
    /\ UNCHANGED <<users, otps, minted, now, ticks, env, hits, call, up, sdk, chain>>
VerifySession(r) ==
    LET token == createSessionToken(reqs[r].uid, reqs[r].email, now) IN
    /\ reqs[r].pc = "sess"
    /\ IF token \in sessions
       THEN /\ sessions' = sessions
            /\ Fail(r, 500, "Failed to verify OTP")
       ELSE /\ sessions' = sessions \cup {token}
            /\ reqs' = [reqs EXCEPT
                   ![r].pc = "done",
                   ![r].resp =
                       [status |-> 200, success |-> TRUE, message |-> "",
                        token |-> token, smartAccountAddress |-> reqs[r].addr,
                        isNewUser |-> reqs[r].isNewUser,
                        userShare |-> IF reqs[r].isNewUser THEN reqs[r].gen.userShare
                                      ELSE EmptyShare,
                        hasUserShare |-> reqs[r].isNewUser
                                         /\ reqs[r].gen.userShare # EmptyShare]]
    /\ rpc' = NoRpc
    /\ UNCHANGED <<users, otps, minted, now, ticks, env, hits, call, up, sdk, chain>>

(***************************************************************************)
(* The clock: a second passes, or a session lifetime.                      *)
(***************************************************************************)
Tick(d) ==
    /\ ticks < MaxTicks
    /\ now' = now + d
    /\ ticks' = ticks + 1
    /\ rpc' = NoRpc
    /\ UNCHANGED <<users, sessions, otps, minted, reqs, env, hits, call, up, sdk, chain>>

(***************************************************************************)
(* POST /mpc/sign and GET /auth/me: one store read, a reply, no write.     *)
(***************************************************************************)
SignKeepShare(hdr, body, lit) ==
    LET reply == mpcSign(hdr, body, now, users, env, lit) IN
    /\ rpc' = [NoRpc EXCEPT !.route = "sign", !.hdr = hdr, !.body = body, !.lit = lit,
                            !.reply = reply]
    /\ users' = IF reply.handlerRan /\ Len(users) > 0
                THEN [users EXCEPT ![1].encryptedServerShare = body.userShare]
                ELSE users
    /\ UNCHANGED <<sessions, otps, minted, reqs, now, ticks, env, hits, call, up, sdk, chain>>
Sign(hdr, body, lit) ==
    /\ rpc' = [NoRpc EXCEPT !.route = "sign", !.hdr = hdr, !.body = body, !.lit = lit,
                            !.reply = mpcSign(hdr, body, now, users, env, lit)]
    /\ UNCHANGED <<users, sessions, otps, minted, reqs, now, ticks, env, hits, call, up, sdk, chain>>

authMe(hdr, rows, t) ==
    LET a == authenticate(hdr, t) IN
    IF ~a.ok THEN [status |-> a.status, email |-> NULL, address |-> NULL]
    ELSE IF a.user.userId \notin 1..Len(rows)
    THEN [status |-> 404, email |-> NULL, address |-> NULL]
    ELSE [status |-> 200, email |-> rows[a.user.userId].email,
          address |-> rows[a.user.userId].smartAccountAddress]
Me(hdr) ==
    LET m == authMe(hdr, users, now) IN
    /\ rpc' = [NoRpc EXCEPT !.route = "me", !.hdr = hdr,
                            !.reply = SignReply(m.status, "", "", NoSig, 0, m.status # 401),
                            !.email = m.email, !.address = m.address]
    /\ UNCHANGED <<users, sessions, otps, minted, reqs, now, ticks, env, hits, call, up, sdk, chain>>

(***************************************************************************)
(* What a client can send: a token issued so far (also after its expiry),  *)
(* such a token re-signed with another secret, no token, something that is *)
(* no token; a share returned so far.                                      *)
(***************************************************************************)
IssuedTokens == {reqs[r].resp.token : r \in {q \in ReqIds : reqs[q].resp.success}}
Forge(t) == [t EXCEPT !.sig = "forged"]
ClientHeaders ==
    {[kind |-> "bearer", tok |-> t] : t \in IssuedTokens \cup {Forge(t) : t \in IssuedTokens}}
    \cup {[kind |-> k, tok |-> NoToken] : k \in {"missing", "garbage"}}
ReturnedShares ==
    {reqs[r].resp.userShare : r \in {q \in ReqIds : reqs[q].resp.hasUserShare}}
ClientBodies ==
    {[valid |-> TRUE, userOpHash |-> "h1", userShare |-> u] : u \in ReturnedShares}

Next ==
    \/ \E email \in Emails, ip \in Ips : Len(otps) < MaxOtp /\ Login(email, ip)
    \/ \E r \in ReqIds, email \in Emails, methodId \in 1..MaxOtp, code \in {"right", "wrong"} :
          VerifyAuthenticate(r, email, methodId, code)
    \/ \E r \in ReqIds : VerifyFindUser(r)
    \/ \E r \in ReqIds : VerifyUpsertUser(r)
    \/ \E r \in ReqIds, gen \in GenBehaviours : VerifyGenerate(r, gen)
    \/ \E r \in ReqIds : VerifyStorePKP(r)
    \/ \E r \in ReqIds : VerifyUpdateAddress(r)
    \/ \E r \in ReqIds : VerifySession(r)
    \/ \E d \in {1, JWT_EXPIRY} : Tick(d)
    \/ \E hdr \in ClientHeaders, body \in ClientBodies : Sign(hdr, body, LitHealthy)
    \/ \E hdr \in ClientHeaders : Me(hdr)

Spec == Init /\ [][Next]_vars

(***************************************************************************)
(* The same server answering its /auth/verify requests one after another:  *)
(* a request is taken up only when no other is being handled.              *)
(***************************************************************************)
Quiescent == \A r \in ReqIds : reqs[r].pc \in {"idle", "done"}
NextSeq ==
    \/ \E email \in Emails, ip \in Ips : Len(otps) < MaxOtp /\ Login(email, ip)
    \/ /\ Quiescent
       /\ \E r \in ReqIds, email \in Emails, methodId \in 1..MaxOtp, code \in {"right", "wrong"} :
             VerifyAuthenticate(r, email, methodId, code)
    \/ \E r \in ReqIds : VerifyFindUser(r)
    \/ \E r \in ReqIds : VerifyUpsertUser(r)
    \/ \E r \in ReqIds, gen \in GenBehaviours : VerifyGenerate(r, gen)
    \/ \E r \in ReqIds : VerifyStorePKP(r)
    \/ \E r \in ReqIds : VerifyUpdateAddress(r)
    \/ \E r \in ReqIds : VerifySession(r)
    \/ \E d \in {1, JWT_EXPIRY} : Tick(d)
    \/ \E hdr \in ClientHeaders, body \in ClientBodies : Sign(hdr, body, LitHealthy)
    \/ \E hdr \in ClientHeaders : Me(hdr)

SpecSeq == Init /\ [][NextSeq]_vars

(***************************************************************************)
(* The signing coordinator on its own: POST /mpc/sign applied to requests  *)
(* and stored rows drawn from bounded sets.  The store holds one user      *)
(* (id 1), with or without a key record, its server share missing, intact, *)
(* changed in its body, iv or tag, encrypted under another key, or not of  *)
(* the "iv:data" form.                                                     *)
(***************************************************************************)
JwtA == [sub |-> "a@x", mid |-> 1]
GoodServerShare == encryptShare(ServerPlain("pkp-a", "pub-a"), "ks", 1).val
GoodUserShare == encryptShare(UserPlain("pkp-a", JwtA), "ku", 1).val
NoColonShare == [EmptyShare EXCEPT !.fmt = "nocolon"]
BadServerShares ==
    { [GoodServerShare EXCEPT !.pt = ServerPlain("pkp-a", "pub-b")],
      [GoodServerShare EXCEPT !.iv = 2],
      [GoodServerShare EXCEPT !.tpt = ServerPlain("pkp-a", "pub-b")],
      encryptShare(ServerPlain("pkp-a", "pub-a"), "kx", 1).val,
      NoColonShare }
BadUserShares ==
    { [GoodUserShare EXCEPT !.pt = UserPlain("pkp-a", NoJwt)],
      encryptShare(UserPlain("pkp-a", JwtA), "kx", 1).val,
      NoColonShare,
      EmptyShare }
MockUserShare ==
    encryptShare([UserPlain("pkp-a", JwtA) EXCEPT !.type = "mock-share"], "ku", 1).val
MockServerShare ==
    encryptShare([ServerPlain("pkp-a", "pub-a") EXCEPT !.type = "mock-share"], "ks", 1).val
OddUserShares ==
    { encryptShare(NoPlain, "ku", 1).val,
      encryptShare(UserPlain("pkp-b", JwtA), "ku", 1).val,
      encryptShare(UserPlain("", JwtA), "ku", 1).val,
      MockUserShare }
KeyRow(pkpId, share) ==
    [NewUserRow("a@x") EXCEPT !.pkpId = pkpId, !.pkpPublicKey = "pub-a",
                              !.pkpEthAddress = "pub-a", !.encryptedServerShare = share,
                              !.smartAccountAddress = "pub-a"]
SignRows ==
    {NewUserRow("a@x"), KeyRow("mock-1", GoodServerShare), KeyRow("mock-1", EmptyShare)}
    \cup {KeyRow("pkp-a", c) :
              c \in BadServerShares \cup {GoodServerShare, EmptyShare, MockServerShare}}
SignEnvs ==
    {EnvConfigured, [user |-> NULL, server |-> "ks"], [user |-> "ku", server |-> NULL]}
TokenA == createSessionToken(1, "a@x", 0)
SignHeaders ==
    {[kind |-> "bearer", tok |-> t] : t \in {TokenA, Forge(TokenA)}}
    \cup {[kind |-> k, tok |-> NoToken] : k \in {"missing", "notbearer", "garbage"}}
SignBodies ==
    {[valid |-> TRUE, userOpHash |-> "h1", userShare |-> u] :
        u \in {GoodUserShare} \cup BadUserShares \cup OddUserShares}
    \cup {NoBody}

InitSign ==
    /\ users \in {<<row>> : row \in SignRows}
    /\ env \in SignEnvs
    /\ sessions = {TokenA}
    /\ otps = <<>>
    /\ minted = {"a@x"}
    /\ reqs = [r \in ReqIds |-> NoReq]
    /\ now = 0
    /\ ticks = 0
    /\ rpc = NoRpc
    /\ hits = NoHits
    /\ call = NoCall
    /\ up = NoUp
    /\ sdk = NoSdk
    /\ chain = NoChain

NextSign ==
    \/ /\ rpc = NoRpc
       /\ \E hdr \in SignHeaders, body \in SignBodies, lit \in LitBehaviours :
             Sign(hdr, body, lit)
    \/ \E d \in {1, JWT_EXPIRY} : Tick(d)

SpecSign == InitSign /\ [][NextSign]_vars

(***************************************************************************)
(* The server started with both encryption keys, or with one of them not   *)
(* set.                                                                    *)
(***************************************************************************)
InitEnv ==
    /\ users = <<>>
    /\ sessions = {}
    /\ otps = <<>>
    /\ minted = {}
    /\ reqs = [r \in ReqIds |-> NoReq]
    /\ now = 0
    /\ ticks = 0
    /\ env \in SignEnvs
    /\ rpc = NoRpc
    /\ hits = NoHits
    /\ call = NoCall
    /\ up = NoUp
    /\ sdk = NoSdk
    /\ chain = NoChain

SpecEnv == InitEnv /\ [][Next]_vars

(***************************************************************************)
(* The encryption services on their own: a plaintext is encrypted by       *)
(* encryptShare, by encrypt, or by storeServerKeyShare (op), what was      *)
(* written is left as it is or changed in one way (tamper), and is then    *)
(* decrypted by the matching function.  A change is of the bytes of the    *)
(* body, the iv or the tag, of the key used to decrypt, of the number of   *)
(* tag bytes that decode (a tag character replaced by one that is no hex   *)
(* digit), or of the writing only.                                         *)
(***************************************************************************)
CryptoOps == {"encryptShare", "encrypt", "storeServerKeyShare"}
Plains == {UserPlain("pkp-a", JwtA), ServerPlain("pkp-a", "pub-a"), NoPlain}
CryptoKeys == HexKeys \cup {DefaultUserKey}
Ivs == {1, 2}
TamperKinds ==
    {"body", "iv", "tag", "key", "tag15", "tag4", "tag2", "uppercase", "trailing"}
OtherOf(v, set) == CHOOSE w \in set : w # v
Tampered(c, kind) ==
    CASE kind = "body" -> [c EXCEPT !.pt = OtherOf(c.pt, Plains)]
      [] kind = "iv" -> [c EXCEPT !.iv = OtherOf(c.iv, Ivs)]
      [] kind = "tag" -> [c EXCEPT !.tpt = OtherOf(c.tpt, Plains)]
      [] kind = "tag15" -> [c EXCEPT !.taglen = 15]
      [] kind = "tag4" -> [c EXCEPT !.taglen = 4]
      [] kind = "tag2" -> [c EXCEPT !.taglen = 2]
      [] kind = "uppercase" -> [c EXCEPT !.form = "uppercase"]
      [] kind = "trailing" -> [c EXCEPT !.form = "trailing"]
      [] OTHER -> c

EncryptCall(op, x, key, iv) ==
    LET e == IF op = "encryptShare" THEN encryptShare(x, key, iv) ELSE encrypt(x, key, iv)
        row == storeServerKeyShare(NoKeyShareRow, x, key, iv)
        written == IF op = "storeServerKeyShare" THEN row.encryptedKeyShare ELSE e.val
    IN
    /\ call = NoCall
    /\ call' = [NoCall EXCEPT !.op = op, !.x = x, !.key = key, !.dkey = key,
                              !.stored = written, !.presented = written,
                              !.done = ~e.ok]
    /\ rpc' = NoRpc
    /\ UNCHANGED <<users, sessions, otps, minted, reqs, now, ticks, env, hits, up, sdk, chain>>
TamperCall(kind) ==
    /\ call.op # "none"
    /\ ~call.done
    /\ call.tamper = "none"
    /\ call' = [call EXCEPT !.tamper = kind,
                            !.presented = Tampered(call.stored, kind),
                            !.dkey = IF kind = "key" THEN OtherOf(call.key, HexKeys)
                                     ELSE call.key]
    /\ rpc' = NoRpc
    /\ UNCHANGED <<users, sessions, otps, minted, reqs, now, ticks, env, hits, up, sdk, chain>>
DecryptCall ==
    LET c == call.presented
        d == CASE call.op = "encryptShare" -> decryptShare(c, call.dkey)
               [] call.op = "encrypt" -> decrypt(c, c.iv, call.dkey)
               [] OTHER -> getServerKeyShare(
                               [encryptedKeyShare |-> c, keyShareIV |-> c.iv], call.dkey)
    IN
    /\ call.op # "none"
    /\ ~call.done
    /\ call' = [call EXCEPT !.done = TRUE, !.ok = d.ok, !.text = d.text]
    /\ rpc' = NoRpc
    /\ UNCHANGED <<users, sessions, otps, minted, reqs, now, ticks, env, hits, up, sdk, chain>>

NextCrypto ==
    \/ \E op \in CryptoOps, x \in Plains, key \in CryptoKeys, iv \in Ivs :
          EncryptCall(op, x, key, iv)
    \/ \E kind \in TamperKinds : TamperCall(kind)
    \/ DecryptCall

SpecCrypto == Init /\ [][NextCrypto]_vars

(***************************************************************************)
(* /auth/login on its own: requests for a code, from the clients' network  *)
(* addresses, and the clock.                                               *)
(***************************************************************************)
NextLogin ==
    \/ \E email \in Emails, ip \in Ips : Len(otps) < MaxLogin /\ Login(email, ip)
    \/ \E d \in {1, JWT_EXPIRY} : Tick(d)

SpecLogin == Init /\ [][NextLogin]_vars

(***************************************************************************)
(* The Session table on its own.  createDBSession stores a row per token   *)
(* with expiresAt = creation time + JWT_EXPIRY; cleanupExpiredSessions     *)
(* deletes the rows whose expiresAt has passed; DeleteSession is an        *)
(* explicit invalidation, the deletion of one row.  The store holds one    *)
(* issued user and the session of its login, created a second ago.         *)
(***************************************************************************)
expiresAt(token) == token.iat + JWT_EXPIRY
cleanupExpiredSessions ==
    /\ sessions' = {t \in sessions : ~(expiresAt(t) < now)}
    /\ rpc' = NoRpc
    /\ UNCHANGED <<users, otps, minted, reqs, now, ticks, env, hits, call, up, sdk, chain>>
DeleteSession(t) ==
    /\ t \in sessions
    /\ sessions' = sessions \ {t}
    /\ rpc' = NoRpc
    /\ UNCHANGED <<users, otps, minted, reqs, now, ticks, env, hits, call, up, sdk, chain>>

InitSession ==
    /\ users = <<KeyRow("pkp-a", GoodServerShare)>>
    /\ env = EnvConfigured
    /\ sessions = {TokenA}
    /\ otps = <<>>
    /\ minted = {"a@x"}
    /\ reqs = [r \in ReqIds |-> NoReq]
    /\ now = 1
    /\ ticks = 0
    /\ rpc = NoRpc
    /\ hits = NoHits
    /\ call = NoCall
    /\ up = NoUp
    /\ sdk = NoSdk
    /\ chain = NoChain

NextSession ==
    \/ cleanupExpiredSessions
    \/ \E t \in sessions : DeleteSession(t)
    \/ \E d \in {1, JWT_EXPIRY} : Tick(d)
    \/ \E hdr \in SignHeaders : Me(hdr)
    \/ \E hdr \in SignHeaders, body \in SignBodies : Sign(hdr, body, LitHealthy)

SpecSession == InitSession /\ [][NextSession]_vars

(***************************************************************************)
(* Properties.                                                             *)
(***************************************************************************)
HasKeyRecord(row) ==
    /\ row.pkpId # NULL
    /\ row.pkpPublicKey # NULL
    /\ row.pkpEthAddress # NULL
Succeeded(r) == reqs[r].pc = "done" /\ reqs[r].resp.success
SucceededFor(email) == {r \in ReqIds : Succeeded(r) /\ reqs[r].email = email}

\* C1: a session for E's user (and key material on E's row) is issued only on
\* a challenge that /auth/login created for E.
C1_IdentityBinding ==
    \A r \in ReqIds :
        (Succeeded(r) \/ reqs[r].wrotePkp) => reqs[r].jwt.sub = reqs[r].email

\* C2: of the successful sequential /auth/verify calls for one email, at most
\* one generates keys; every one returns the address the store holds for the
\* user, which is the stored PKP's public key; a call that finds the account
\* does not generate keys and does not write the key record.
C2_IdempotentIssuance ==
    \A e \in Emails :
        /\ Cardinality({r \in SucceededFor(e) : reqs[r].genCalls > 0}) <= 1
        /\ \A r \in SucceededFor(e) :
              /\ reqs[r].resp.smartAccountAddress = users[reqs[r].uid].smartAccountAddress
              /\ reqs[r].resp.smartAccountAddress = users[reqs[r].uid].pkpPublicKey
              /\ HasKeyRecord(users[reqs[r].uid])
              /\ ~reqs[r].isNewUser =>
                    /\ reqs[r].genCalls = 0
                    /\ ~reqs[r].wrotePkp
                    /\ ~reqs[r].resp.hasUserShare
C2_Witness ==
    \E r1, r2 \in ReqIds :
        /\ r1 # r2
        /\ Succeeded(r1) /\ Succeeded(r2)
        /\ reqs[r1].email = reqs[r2].email
        /\ reqs[r1].isNewUser /\ reqs[r1].genCalls = 1
        /\ ~reqs[r2].isNewUser
        /\ reqs[r1].jwt.mid # reqs[r2].jwt.mid

\* C3: two /auth/verify requests for the same new email do not both succeed
\* in minting: at most one of them writes the pkp fields and succeeds as the
\* new user.
C3_SingleMint ==
    \A r1, r2 \in ReqIds :
        (/\ r1 # r2
         /\ reqs[r1].email = reqs[r2].email
         /\ Succeeded(r1) /\ reqs[r1].isNewUser /\ reqs[r1].wrotePkp)
        => ~(Succeeded(r2) /\ reqs[r2].isNewUser /\ reqs[r2].wrotePkp)

\* C4: between requests, a user with a key record has a stored encrypted
\* server share.
C4_KeyRecordHasShare ==
    Quiescent =>
        \A i \in 1..Len(users) :
            HasKeyRecord(users[i]) => users[i].encryptedServerShare # EmptyShare

\* C5: after a successful first login the stored server share is the one
\* generateMPCKeyShares returned, and a sign call with the session and the
\* returned user share gets past the lookup, mock and server-share stages.
C5_StoredShareIsGenerated ==
    /\ \A r \in ReqIds :
          (Succeeded(r) /\ reqs[r].isNewUser) =>
              getPKPInfo(users, reqs[r].uid).encryptedServerShare = reqs[r].gen.serverShare
    /\ \A r \in ReqIds :
          (/\ Succeeded(r) /\ reqs[r].isNewUser
           /\ rpc.route = "sign"
           /\ rpc.hdr = [kind |-> "bearer", tok |-> reqs[r].resp.token]
           /\ rpc.body.userShare = reqs[r].resp.userShare
           /\ rpc.reply.status # 401)
          => rpc.reply.stage \notin {"pkp_lookup", "pkp_validation", "server_share"}

\* C6: for each email exactly one response carries a userShare, that of the
\* request that persisted the key record: never two, and one once the account
\* is issued and no request is in flight.
SharesReturnedFor(email) ==
    {r \in ReqIds : reqs[r].email = email /\ reqs[r].pc = "done" /\ reqs[r].resp.hasUserShare}
C6_ShareExactlyOnce ==
    \A e \in Emails :
        /\ Cardinality(SharesReturnedFor(e)) <= 1
        /\ \A r \in SharesReturnedFor(e) : reqs[r].wrotePkp
        /\ (/\ Quiescent
            /\ findUniqueByEmail(users, e) # 0
            /\ users[findUniqueByEmail(users, e)].smartAccountAddress # NULL)
           => Cardinality(SharesReturnedFor(e)) = 1

\* C7: a proof accepted once is rejected when presented again: a request that
\* presents the right code of a consumed challenge is answered 400 and goes no
\* further, no two requests are accepted on one challenge, a request whose
\* proof the provider rejected is answered 400, and a request calls the
\* provider's authenticate once.
C7_ReplayRejected ==
    \A r \in ReqIds :
        /\ reqs[r].authCalls <= 1
        /\ reqs[r].replayed =>
              /\ reqs[r].pc = "done"
              /\ reqs[r].resp.status = 400
              /\ reqs[r].jwt = NoJwt
              /\ reqs[r].uid = 0
        /\ (reqs[r].pc # "idle" /\ reqs[r].jwt = NoJwt) =>
              /\ reqs[r].pc = "done"
              /\ reqs[r].resp.status = 400
        /\ reqs[r].jwt # NoJwt =>
              /\ reqs[r].jwt.mid \in 1..Len(otps)
              /\ otps[reqs[r].jwt.mid].consumed
              /\ \A q \in ReqIds : q # r => reqs[q].jwt.mid # reqs[r].jwt.mid
C7_Witness ==
    \E r, q \in ReqIds :
        /\ reqs[r].replayed
        /\ reqs[r].resp.status = 400
        /\ Succeeded(q)
        /\ reqs[q].email = reqs[r].email

\* C8: a complete key record is never changed afterwards, and storePKPInfo
\* runs only for a user that has no key record.
KeyFields(row) ==
    <<row.pkpId, row.pkpPublicKey, row.pkpEthAddress, row.smartAccountAddress>>
C8_KeyRecordStep ==
    /\ \A i \in 1..Len(users) :
          (HasKeyRecord(users[i]) /\ users[i].smartAccountAddress # NULL)
          => KeyFields(users'[i]) = KeyFields(users[i])
    /\ \A r \in ReqIds :
          (~reqs[r].wrotePkp /\ reqs'[r].wrotePkp) => ~HasKeyRecord(users[reqs[r].uid])
C8_KeyRecordImmutable == [][C8_KeyRecordStep]_vars

\* C9: /mpc/sign answers 401 for a missing, malformed, forged or expired
\* token and the account-not-provisioned failure (stage pkp_lookup) for an
\* authenticated user without a key record, and in both cases pkpSign is not
\* called.
BadToken(hdr) ==
    \/ hdr.kind # "bearer"
    \/ hdr.tok.sig # "server"
    \/ now >= hdr.tok.iat + JWT_EXPIRY
NoKeyRecordFor(userId) == userId \notin 1..Len(users) \/ ~HasKeyRecord(users[userId])
C9_Original ==
    rpc.route = "sign" =>
        /\ BadToken(rpc.hdr) =>
              /\ rpc.reply.status = 401
              /\ ~rpc.reply.handlerRan
              /\ rpc.reply.pkpSignCalls = 0
        /\ (~BadToken(rpc.hdr) /\ NoKeyRecordFor(rpc.hdr.tok.userId)) =>
              /\ rpc.reply.status = 500
              /\ rpc.reply.stage = "pkp_lookup"
              /\ rpc.reply.pkpSignCalls = 0
\* C9 (amended): the same for a request whose body passes the route's body
\* schema; a request whose body fails it is answered 400 before the token is
\* looked at. pkpSign is called in none of these cases.
C9_SignRejections ==
    rpc.route = "sign" =>
        /\ ~rpc.body.valid =>
              /\ rpc.reply.status = 400
              /\ ~rpc.reply.handlerRan
              /\ rpc.reply.pkpSignCalls = 0
        /\ (rpc.body.valid /\ BadToken(rpc.hdr)) =>
              /\ rpc.reply.status = 401
              /\ ~rpc.reply.handlerRan
              /\ rpc.reply.pkpSignCalls = 0
        /\ (rpc.body.valid /\ ~BadToken(rpc.hdr) /\ NoKeyRecordFor(rpc.hdr.tok.userId)) =>
              /\ rpc.reply.status = 500
              /\ rpc.reply.stage = "pkp_lookup"
              /\ rpc.reply.pkpSignCalls = 0
C9_Witness ==
    /\ rpc.route = "sign"
    /\ rpc.body.valid
    /\ rpc.hdr = [kind |-> "bearer", tok |-> TokenA]
    /\ now < JWT_EXPIRY
    /\ NoKeyRecordFor(1)
    /\ rpc.reply.stage = "pkp_lookup"

\* C10: a sign call with a valid session and a stored server share that does
\* not decrypt fails without a pkpSign call, with signWithMPC's decryption
\* error when the Lit client is connected; so does a call whose user share
\* does not decrypt.
ServerShareUndecryptable(c) == c \in BadServerShares \/ env.server # "ks"
UserShareUndecryptable(c) == c \in BadUserShares \/ env.user # "ku"
SignStages == {"pkp_lookup", "pkp_validation", "server_share", "mpc_signing"}
SignOrder(schemaFirst) ==
    rpc.route = "sign" =>
        LET r == rpc.reply
            u == rpc.hdr.tok.userId
        IN  /\ r.status \in {200, 400, 401, 500}
            /\ r.success <=> r.signature # NoSig
            /\ r.success <=> r.stage = "" /\ r.status = 200
            /\ r.status = 500 <=> r.stage \in SignStages
            /\ r.pkpSignCalls <= 1
            /\ r.success => r.pkpSignCalls = 1
            /\ IF schemaFirst /\ ~rpc.body.valid
               THEN r.status = 400 /\ ~r.handlerRan /\ r.pkpSignCalls = 0
               ELSE IF BadToken(rpc.hdr)
               THEN r.status = 401 /\ ~r.handlerRan /\ r.pkpSignCalls = 0
               ELSE IF NoKeyRecordFor(u)
               THEN r.stage = "pkp_lookup" /\ r.pkpSignCalls = 0
               ELSE IF StartsWithMock(users[u].pkpId)
               THEN r.stage = "pkp_validation" /\ r.pkpSignCalls = 0
               ELSE IF users[u].encryptedServerShare = EmptyShare
               THEN r.stage = "server_share" /\ r.pkpSignCalls = 0
               ELSE IF \/ ServerShareUndecryptable(users[u].encryptedServerShare)
                       \/ UserShareUndecryptable(rpc.body.userShare)
               THEN r.stage = "mpc_signing" /\ r.pkpSignCalls = 0
               ELSE /\ r.stage \in {"", "mpc_signing"}
                    /\ r.success <=>
                          (/\ rpc.lit = LitHealthy
                           /\ rpc.body.userShare = GoodUserShare
                           /\ ~TypeHasMock(users[u].encryptedServerShare.pt.type))
C11_Original == SignOrder(FALSE)
C11_SignOrder == SignOrder(TRUE)
C11_Witness ==
    /\ rpc.route = "sign"
    /\ rpc.hdr = [kind |-> "bearer", tok |-> TokenA]
    /\ rpc.body.valid
    /\ rpc.body.userShare = GoodUserShare
    /\ rpc.lit = LitHealthy
    /\ env = EnvConfigured
    /\ users[1].pkpId = "pkp-a"
    /\ users[1].encryptedServerShare = GoodServerShare
    /\ rpc.reply.success
    /\ rpc.reply.pkpSignCalls = 1
    /\ rpc.reply.signature = SignatureOf("pub-a", "h1", JwtA)

\* C12: the failure causes of a sign call have different stage tags: a call
\* that fails for a missing key record is tagged pkp_lookup and no other is,
\* one that fails for a placeholder record pkp_validation and no other is, a
\* remote-signer failure is tagged mpc_signing, and a call whose only failing
\* precondition is the server share (missing, or not decrypting) has a tag
\* that is none of these three.
RemoteSignerFails(lit) == ~lit.connects \/ ~lit.hasPkpSign \/ lit.answer # "signature"
C12_DistinctStages ==
    (rpc.route = "sign" /\ rpc.body.valid /\ ~BadToken(rpc.hdr)) =>
        LET r == rpc.reply
            u == rpc.hdr.tok.userId
            ready == ~NoKeyRecordFor(u) /\ ~StartsWithMock(users[u].pkpId)
            share == users[u].encryptedServerShare
        IN  /\ NoKeyRecordFor(u) <=> r.stage = "pkp_lookup"
            /\ (~NoKeyRecordFor(u) /\ StartsWithMock(users[u].pkpId))
                  <=> r.stage = "pkp_validation"
            /\ (/\ ready
                /\ share # EmptyShare
                /\ ~ServerShareUndecryptable(share)
                /\ rpc.body.userShare = GoodUserShare
                /\ RemoteSignerFails(rpc.lit))
               => r.stage = "mpc_signing"
            /\ (/\ ready
                /\ share = EmptyShare \/ ServerShareUndecryptable(share)
                /\ ~UserShareUndecryptable(rpc.body.userShare)
                /\ ~RemoteSignerFails(rpc.lit))
               => r.stage \notin {"", "pkp_lookup", "pkp_validation", "mpc_signing"}

\* C13: within one sign call pkpSign is invoked at most once; when it throws
\* or answers without a signature the call fails as a remote-signing failure
\* (500, stage mpc_signing, no signature) after that one invocation.
C13_NoSilentRetry ==
    rpc.route = "sign" =>
        /\ rpc.reply.pkpSignCalls <= 1
        /\ (rpc.reply.pkpSignCalls = 1 /\ rpc.lit.answer # "signature") =>
              /\ rpc.reply.status = 500
              /\ rpc.reply.stage = "mpc_signing"
              /\ ~rpc.reply.success
              /\ rpc.reply.signature = NoSig
        /\ (rpc.reply.pkpSignCalls = 1 /\ rpc.lit.answer = "signature") =>
              rpc.reply.success
C13_Witness ==
    /\ rpc.route = "sign"
    /\ rpc.lit.answer = "throws"
    /\ rpc.body.userShare = GoodUserShare
    /\ users[1].encryptedServerShare = GoodServerShare
    /\ rpc.reply.pkpSignCalls = 1
    /\ rpc.reply.stage = "mpc_signing"

\* C14: a protected route accepts a bearer token only if it is well formed,
\* signed by the server and less than JWT_EXPIRY seconds old; any other
\* header is answered 401 and the handler does not run.  An accepted token
\* is one the server issued, and the handler acts for the user id and email
\* it was issued for.
C14_SessionValidation ==
    rpc.route \in {"me", "sign"} =>
        /\ BadToken(rpc.hdr) =>
              /\ rpc.reply.status = 401
              /\ ~rpc.reply.handlerRan
              /\ rpc.reply.signature = NoSig
              /\ rpc.email = NULL
        /\ ~BadToken(rpc.hdr) =>
              /\ rpc.reply.handlerRan
              /\ rpc.reply.status # 401
              /\ authenticate(rpc.hdr, now).user = rpc.hdr.tok
              /\ \E r \in ReqIds :
                    /\ Succeeded(r)
                    /\ reqs[r].resp.token = rpc.hdr.tok
                    /\ reqs[r].uid = rpc.hdr.tok.userId
                    /\ reqs[r].email = rpc.hdr.tok.email
                    /\ now < reqs[r].resp.token.iat + JWT_EXPIRY
              /\ rpc.route = "me" =>
                    /\ rpc.reply.status = 200
                    /\ rpc.email = rpc.hdr.tok.email
C14_Witness ==
    /\ rpc.route = "me"
    /\ rpc.hdr.kind = "bearer"
    /\ rpc.hdr.tok \in IssuedTokens
    /\ now >= rpc.hdr.tok.iat + JWT_EXPIRY
    /\ rpc.reply.status = 401

\* C15: a token whose Session row is no longer in the store is rejected by
\* authenticate: a protected call that presents it is answered 401.
C15_Revocable ==
    (/\ rpc.route \in {"me", "sign"}
     /\ rpc.route = "sign" => rpc.body.valid
     /\ rpc.hdr.kind = "bearer"
     /\ rpc.hdr.tok \notin sessions)
    => /\ rpc.reply.status = 401
       /\ ~rpc.reply.handlerRan

\* C16: in any window of RATE_LIMIT_WINDOW seconds at most RATE_LIMIT_MAX
\* login requests for one email reach the provider's send-OTP call.
SentInWindow(email, from) ==
    {j \in 1..Len(otps) :
        /\ otps[j].email = email
        /\ otps[j].at >= from
        /\ otps[j].at < from + RATE_LIMIT_WINDOW}
C16_LoginRateLimit ==
    \A i \in 1..Len(otps) :
        Cardinality(SentInWindow(otps[i].email, otps[i].at)) <= RATE_LIMIT_MAX

\* C17: there is at most one User row per email address, also when two
\* /auth/verify requests for an unseen email both found no row: the create of
\* the second fails on the unique index and the request is answered 500.
C17_UniqueEmail ==
    /\ \A i, j \in 1..Len(users) : users[i].email = users[j].email => i = j
    /\ \A r \in ReqIds :
          (reqs[r].uid # 0) => users[reqs[r].uid].email = reqs[r].email
C17_Witness ==
    \E r \in ReqIds :
        /\ reqs[r].pc = "done"
        /\ reqs[r].jwt # NoJwt
        /\ reqs[r].uid = 0
        /\ reqs[r].resp.status = 500
        /\ findUniqueByEmail(users, reqs[r].email) # 0

\* C18: a /auth/verify request whose generateMPCKeyShares call fails ends
\* there: it is answered 500 without a token or a share, it writes no user
\* column and no session, and it does nothing afterwards; a request goes on
\* to storePKPInfo only with a complete result.  So a user whose only
\* issuance attempts failed in key generation has pkpId, pkpPublicKey,
\* pkpEthAddress and smartAccountAddress unset.
GenFailed(r) == reqs[r].pc = "done" /\ reqs[r].genCalls = 1 /\ ~reqs[r].wrotePkp
NoKeyColumns(row) ==
    /\ row.pkpId = NULL
    /\ row.pkpPublicKey = NULL
    /\ row.pkpEthAddress = NULL
    /\ row.smartAccountAddress = NULL
C18_FailedState ==
    \A r \in ReqIds :
        GenFailed(r) =>
            /\ reqs[r].resp.status = 500
            /\ ~reqs[r].resp.success
            /\ reqs[r].resp.token = NoToken
            /\ ~reqs[r].resp.hasUserShare
            /\ (\A q \in ReqIds : reqs[q].uid = reqs[r].uid => ~reqs[q].wrotePkp)
                  => NoKeyColumns(users[reqs[r].uid])
C18_GenerateStep ==
    \A r \in ReqIds :
        /\ (reqs[r].pc = "gen" /\ reqs'[r].pc = "done") =>
              /\ users' = users
              /\ sessions' = sessions
              /\ GenFailed(r)'
        /\ (reqs[r].pc = "gen" /\ reqs'[r].pc \notin {"gen", "done"}) =>
              /\ reqs'[r].gen.pkpId # NULL
              /\ reqs'[r].gen.publicKey # NULL
              /\ reqs'[r].gen.pkpEthAddress # NULL
              /\ reqs'[r].gen.serverShare # EmptyShare
              /\ reqs'[r].gen.userShare # EmptyShare
        /\ reqs[r].pc = "done" => reqs'[r] = reqs[r]
C18_NoPartialKeyRecord == []C18_FailedState /\ [][C18_GenerateStep]_vars
C18_Witness ==
    \E r \in ReqIds :
        /\ GenFailed(r)
        /\ reqs[r].resp.status = 500
        /\ reqs[r].jwt.sub \in minted
        /\ env.server = NULL
        /\ NoKeyColumns(users[reqs[r].uid])

\* C19: what was encrypted decrypts, under the same key, to the plaintext
\* that was encrypted; decrypting something that differs from what was
\* written (body, tag, iv, or any other change of the stored text), or with
\* another key, fails; and a decryption that succeeds returns the plaintext
\* that was encrypted.
Decrypted == call.op # "none" /\ call.done /\ call.stored # EmptyShare
C19_RoundTripTamper ==
    Decrypted =>
        /\ (call.tamper = "none") => (call.ok /\ call.text = call.x)
        /\ (call.presented # call.stored \/ call.dkey # call.key) => ~call.ok
        /\ call.ok => call.text = call.x
\* C19, the part that holds: the round trip, the failure for changed bytes of
\* body, iv or tag, for a tag of no GCM length and for another key, and no
\* wrong plaintext.
C19_Holds ==
    Decrypted =>
        /\ (call.tamper = "none") => (call.ok /\ call.text = call.x)
        /\ call.tamper \in {"body", "iv", "tag", "key", "tag2"} => ~call.ok
        /\ call.ok => call.text = call.x

\* C20: when USER_ENCRYPTION_KEY or SERVER_ENCRYPTION_KEY is not set, a sign
\* call that reaches signWithMPC fails (500, stage mpc_signing) without a
\* pkpSign call and without a signature, with the decryption error of the
\* share whose key is missing when the Lit client is connected; no share is
\* decrypted under a default key value.
KeyUnset == env.user = NULL \/ env.server = NULL
AllShares ==
    {GoodUserShare, GoodServerShare} \cup BadUserShares \cup OddUserShares
    \cup BadServerShares
C20_NoFallbackKey ==
    /\ \A c \in AllShares :
          /\ ~decryptShare(c, DefaultUserKey).ok
          /\ ~decryptShare(c, DefaultServerKey).ok
    /\ (/\ rpc.route = "sign"
        /\ rpc.body.valid
        /\ ~BadToken(rpc.hdr)
        /\ ~NoKeyRecordFor(rpc.hdr.tok.userId)
        /\ ~StartsWithMock(users[rpc.hdr.tok.userId].pkpId)
        /\ users[rpc.hdr.tok.userId].encryptedServerShare # EmptyShare
        /\ KeyUnset)
       => LET res == signWithMPC(rpc.body.userShare,
                                 users[rpc.hdr.tok.userId].encryptedServerShare,
                                 rpc.body.userOpHash, env, rpc.lit)
          IN  /\ rpc.reply.status = 500
              /\ rpc.reply.stage = "mpc_signing"
              /\ rpc.reply.signature = NoSig
              /\ rpc.reply.pkpSignCalls = 0
              /\ ~res.ok /\ res.calls = 0
              /\ (rpc.lit.connects /\ env.user = NULL)
                    => res.err = "USER_SHARE_DECRYPT_FAILED"
              /\ (rpc.lit.connects /\ env.user # NULL
                   /\ ~UserShareUndecryptable(rpc.body.userShare))
                    => res.err = "SERVER_SHARE_DECRYPT_FAILED"
C20_Witness ==
    /\ rpc.route = "sign"
    /\ rpc.hdr = [kind |-> "bearer", tok |-> TokenA]
    /\ now < JWT_EXPIRY
    /\ env = [user |-> NULL, server |-> "ks"]
    /\ rpc.body.valid
    /\ rpc.body.userShare = GoodUserShare
    /\ rpc.lit = LitHealthy
    /\ users[1].pkpId = "pkp-a"
    /\ users[1].encryptedServerShare = GoodServerShare
    /\ rpc.reply.stage = "mpc_signing"
    /\ rpc.reply.pkpSignCalls = 0

(***************************************************************************)
(* What a response carries.  A response of /auth/verify has the fields     *)
(* message, token, smartAccountAddress, isNewUser and userShare; one of    *)
(* /mpc/sign has stage, message and signature; one of /auth/me has email   *)
(* and smartAccountAddress.  Share material is a server share (the         *)
(* ciphertext generated or stored) or the plaintext document of a share.   *)
(***************************************************************************)
ServerShares ==
    ({users[i].encryptedServerShare : i \in 1..Len(users)}
         \cup {reqs[r].gen.serverShare : r \in ReqIds}) \ {EmptyShare}
VerifyMessages ==
    {"", "Invalid or expired OTP code", "Failed to generate wallet", "Failed to verify OTP"}
SignErrors ==
    { <<"pkp_lookup", "Failed to load PKP info">>,
      <<"pkp_validation", "Mock PKP detected - real MPC required">>,
      <<"server_share", "Missing encrypted server share - MPC not initialized">>,
      <<"mpc_signing", "Lit MPC signing failed">> }
AuthMessages ==
    {"Missing or invalid authorization header", "Invalid or expired session token"}

\* C21: no response of /auth/verify, /auth/me or /mpc/sign carries a server
\* share or the plaintext of a share: the share a /auth/verify response
\* carries is the user share's ciphertext as generated by that request and
\* only for a new user, its message is one of four fixed texts; a /mpc/sign
\* reply carries a signature only on success, and its error is one of four
\* fixed (stage, message) pairs (or the 400 / 401 text), whatever the shares
\* hold; /auth/me carries the e-mail and the address only.
C21_NoShareInResponses ==
    /\ \A r \in ReqIds :
          LET resp == reqs[r].resp IN
          /\ resp.userShare \notin ServerShares
          /\ resp.message \in VerifyMessages
          /\ resp.userShare # EmptyShare =>
                /\ resp.success /\ resp.isNewUser
                /\ resp.userShare = reqs[r].gen.userShare
                /\ resp.userShare.fmt = "ok"
          /\ ~resp.success => resp.userShare = EmptyShare /\ resp.token = NoToken
    /\ rpc.route = "sign" =>
          /\ rpc.reply.status \in {200, 400, 401, 500}
          /\ rpc.reply.status = 500 => <<rpc.reply.stage, rpc.reply.message>> \in SignErrors
          /\ rpc.reply.status = 401 => rpc.reply.stage = "" /\ rpc.reply.message \in AuthMessages
          /\ rpc.reply.status = 400 => rpc.reply.stage = "" /\ rpc.reply.message = "Bad Request"
          /\ rpc.reply.status # 200 => rpc.reply.signature = NoSig
    /\ rpc.route = "me" =>
          /\ rpc.reply.signature = NoSig
          /\ rpc.reply.stage = "" /\ rpc.reply.message = ""

\* a new user's /auth/verify has answered with the user share while the server
\* share generated with it exists, and a /mpc/sign call has been refused
C21_Witness ==
    /\ \E r \in ReqIds :
          /\ reqs[r].resp.success /\ reqs[r].resp.hasUserShare
          /\ reqs[r].gen.serverShare # EmptyShare
    /\ rpc.route = "sign" /\ rpc.reply.status = 500

\* C22: a POST /mpc/sign, answered with a signature or refused, leaves the
\* store as it was: no User row and no Session row is written, and nothing
\* else the server keeps (environment, limiter, pending requests) changes;
\* the signature, the digest and the share exist in the call's reply only.
C22_SignStep ==
    (rpc'.route = "sign" /\ rpc' # rpc) =>
        /\ users' = users
        /\ sessions' = sessions
        /\ <<otps, minted, reqs, env, hits, call>>' = <<otps, minted, reqs, env, hits, call>>
C22_SignPersistsNothing == [][C22_SignStep]_vars

\* a sign call has returned a signature, for a stored key record
C22_Witness ==
    /\ rpc.route = "sign"
    /\ rpc.reply.status = 200
    /\ rpc.reply.signature # NoSig
    /\ \E i \in 1..Len(users) : HasKeyRecord(users[i])

\* C23: when a /auth/verify request has completed, the provider session
\* proof it obtained (the session_jwt) is in no stored record and in no
\* artifact the request produced: not in its response, not in the shares
\* generated for it, not in a User row.
SessionProofOf(r) == reqs[r].jwt
C23_SessionProofNotKept ==
    \A r \in ReqIds :
        (reqs[r].pc = "done" /\ SessionProofOf(r) # NoJwt) =>
            /\ reqs[r].gen.userShare.pt.auth # SessionProofOf(r)
            /\ reqs[r].gen.serverShare.pt.auth # SessionProofOf(r)
            /\ reqs[r].resp.userShare.pt.auth # SessionProofOf(r)
            /\ \A i \in 1..Len(users) :
                  users[i].encryptedServerShare.pt.auth # SessionProofOf(r)

(***************************************************************************)
(* Upstream calls.  Each handler awaits its network calls one after the    *)
(* other: /auth/login the provider's otps/email/send (and, when the        *)
(* address is unknown there, users and the send again); /auth/verify the   *)
(* provider's otps/authenticate and, for a new user, the signer's connect, *)
(* fetchPkpsThroughRelayer and claimKeyId; /mpc/sign the signer's connect  *)
(* and pkpSign.  initLitClient connects only while litNodeClient is null,  *)
(* and sets it before it awaits connect.  No call is given a deadline or   *)
(* an abort signal: an awaited call ends when the upstream answers ("ok",  *)
(* "error", and the answers particular to a call) or when the transport    *)
(* gives up by itself ("timeout"), which the handler receives as a thrown  *)
(* error like any other.                                                   *)
(***************************************************************************)
UpRoutes == {"login", "verify", "sign"}
UpAnswers(step) ==
    {"ok", "error", "timeout"}
        \cup (IF step = "otps/email/send" THEN {"email_not_found"} ELSE {})
        \cup (IF step = "fetchPkpsThroughRelayer" THEN {"none"} ELSE {})
UpReply(u, status, stage, message) ==
    [u EXCEPT !.pc = "done", !.status = status, !.stage = stage, !.message = message]
UpAwait(u, step) == [u EXCEPT !.pc = "awaiting", !.step = step, !.answer = "none"]

\* createStytchEmailOTP inside the /auth/login handler
loginAfter(u) ==
    IF u.answer = "ok" THEN UpReply(u, 200, "", "OTP sent via Stytch")
    ELSE IF u.step = "otps/email/send" /\ u.answer = "email_not_found"
    THEN UpAwait(u, "users")
    ELSE IF u.step = "users" /\ u.answer = "ok" THEN UpAwait(u, "otps/email/send again")
    ELSE UpReply(u, 500, "", "Failed to send OTP")

\* getStytchAuthToken and generateMPCKeyShares inside the /auth/verify handler
verifyAfter(u, litSet) ==
    IF u.step = "otps/authenticate"
    THEN IF u.answer # "ok" THEN UpReply(u, 400, "", "Invalid or expired OTP code")
         ELSE IF ~u.isNewUser THEN UpReply(u, 200, "", "")
         ELSE IF litSet THEN UpAwait(u, "fetchPkpsThroughRelayer")
         ELSE UpAwait(u, "connect")
    ELSE IF u.step = "connect"
    THEN IF u.answer = "ok" THEN UpAwait(u, "fetchPkpsThroughRelayer")
         ELSE UpReply(u, 500, "", "Failed to generate wallet")
    ELSE IF u.step = "fetchPkpsThroughRelayer"
    THEN IF u.answer = "ok" THEN UpReply(u, 200, "", "")
         ELSE UpAwait(u, "claimKeyId")
    ELSE IF u.answer = "ok" THEN UpReply(u, 200, "", "")
         ELSE UpReply(u, 500, "", "Failed to generate wallet")

\* signWithMPC inside the /mpc/sign handler
signAfter(u) ==
    IF u.answer # "ok" THEN UpReply(u, 500, "mpc_signing", "Lit MPC signing failed")
    ELSE IF u.step = "connect" THEN UpAwait(u, "pkpSign")
    ELSE UpReply(u, 200, "", "")

UpBegin(c, route, isNewUser) ==
    LET first == IF route = "login" THEN "otps/email/send"
                 ELSE IF route = "verify" THEN "otps/authenticate"
                 ELSE IF up.lit THEN "pkpSign" ELSE "connect"
    IN
    /\ up.calls[c].pc = "idle"
    /\ IF c = 1 THEN TRUE ELSE up.calls[c - 1].pc # "idle"
    /\ isNewUser => route = "verify"
    /\ up' = [up EXCEPT !.calls[c] =
                  UpAwait([NoUpCall EXCEPT !.route = route, !.isNewUser = isNewUser], first),
                        !.lit = up.lit \/ first = "connect"]
    /\ UNCHANGED <<users, sessions, otps, minted, reqs, now, ticks, env, rpc, hits, call,
                   sdk, chain>>

UpAnswer(c, answer) ==
    /\ up.calls[c].pc = "awaiting"
    /\ answer \in UpAnswers(up.calls[c].step)
    /\ up' = [up EXCEPT !.calls[c].pc = "answered", !.calls[c].answer = answer,
                        !.calls[c].timedOut = up.calls[c].timedOut \/ answer = "timeout"]
    /\ UNCHANGED <<users, sessions, otps, minted, reqs, now, ticks, env, rpc, hits, call,
                   sdk, chain>>

UpResume(c) ==
    LET u == up.calls[c]
        v == IF u.route = "login" THEN loginAfter(u)
             ELSE IF u.route = "verify" THEN verifyAfter(u, up.lit)
             ELSE signAfter(u)
    IN
    /\ u.pc = "answered"
    /\ up' = [up EXCEPT !.calls[c] = v,
                        !.lit = up.lit \/ (v.pc = "awaiting" /\ v.step = "connect")]
    /\ UNCHANGED <<users, sessions, otps, minted, reqs, now, ticks, env, rpc, hits, call,
                   sdk, chain>>

UpResumeAny == \E c \in UpIds : UpResume(c)
NextUpstream ==
    \/ \E c \in UpIds, route \in UpRoutes, isNewUser \in BOOLEAN : UpBegin(c, route, isNewUser)
    \/ \E c \in UpIds, answer \in UpAnswers("otps/email/send") \cup UpAnswers("fetchPkpsThroughRelayer") :
          UpAnswer(c, answer)
    \/ UpResumeAny

\* the handlers run on when an awaited call has ended; nothing makes an
\* upstream answer
SpecUpstream == Init /\ [][NextUpstream]_vars /\ WF_vars(UpResumeAny)

\* C24: every /auth/login, /auth/verify and /mpc/sign request that waits
\* for an upstream call is eventually answered, also when the upstream never
\* answers; and a request one of whose upstream calls timed out is not
\* answered with success and not with the reply the route gives for another
\* failure.
C24_TimeoutDistinct ==
    \A c \in UpIds :
        (up.calls[c].pc = "done" /\ up.calls[c].timedOut) =>
            /\ up.calls[c].status # 200
            /\ \A d \in UpIds :
                  (/\ up.calls[d].pc = "done"
                   /\ ~up.calls[d].timedOut
                   /\ up.calls[d].route = up.calls[c].route)
                  => <<up.calls[d].status, up.calls[d].stage, up.calls[d].message>>
                         # <<up.calls[c].status, up.calls[c].stage, up.calls[c].message>>
C24_Completes ==
    \A c \in UpIds : (up.calls[c].pc = "awaiting") ~> (up.calls[c].pc = "done")
C24_BoundedUpstream == []C24_TimeoutDistinct /\ C24_Completes

(***************************************************************************)
(* A placeholder: the stored pkpId starts with 'mock-', or the plaintext   *)
(* of the presented user share or of the stored server share has a type    *)
(* that contains 'mock'.                                                   *)
(***************************************************************************)
MockTyped(c) == TypeHasMock(c.pt.type)
Placeholder(row, body) ==
    \/ StartsWithMock(row.pkpId)
    \/ MockTyped(body.userShare)
    \/ MockTyped(row.encryptedServerShare)

Tokens == {"t1", "t2"}
AccountAddrs == {"0xA", "0xB"}
ClientShares == {"s1"}
IdbStates == {"nodb", "nostore", "empty"} \cup ClientShares
IdbResult(idb, outcome, value) == [idb |-> idb, outcome |-> outcome, value |-> value]

storeUserShare(idb, encryptedShare, opens) ==
    IF ~opens THEN IdbResult(idb, "rejected", NULL)
    ELSE IF idb = "nostore" THEN IdbResult(idb, "pending", NULL)
    ELSE IdbResult(encryptedShare, "resolved", NULL)

getUserShare(idb, opens) ==
    IF ~opens THEN IdbResult(idb, "rejected", NULL)
    ELSE IF idb = "nostore" THEN IdbResult(idb, "pending", NULL)
    ELSE IF idb = "nodb" THEN IdbResult("empty", "resolved", NULL)
    ELSE IF idb = "empty" THEN IdbResult(idb, "resolved", NULL)
    ELSE IdbResult(idb, "resolved", idb)

clearUserShare(idb, opens) ==
    IF ~opens THEN IdbResult(idb, "rejected", NULL)
    ELSE IF idb \in {"nodb", "nostore"} THEN IdbResult("nostore", "pending", NULL)
    ELSE IdbResult("empty", "resolved", NULL)

(***************************************************************************)
(* OnkeyClient.                                                            *)
(***************************************************************************)
loadSessionEach(s) ==
    [s EXCEPT !.token = s.localStorage.onkey_token,
              !.smartAccountAddress = s.localStorage.onkey_address]
loadSession(s) ==
    IF s.localStorage.onkey_token # NULL /\ s.localStorage.onkey_address # NULL
    THEN [s EXCEPT !.token = s.localStorage.onkey_token,
                   !.smartAccountAddress = s.localStorage.onkey_address]
    ELSE s

saveSession(s, token, address) ==
    [s EXCEPT !.localStorage = [onkey_token |-> token, onkey_address |-> address],
              !.token = token,
              !.smartAccountAddress = address]

clearSessionKeepClient(s) ==
    [s EXCEPT !.localStorage = [onkey_token |-> NULL, onkey_address |-> NULL],
              !.token = NULL,
              !.smartAccountAddress = NULL]
clearSession(s) ==
    [s EXCEPT !.localStorage = [onkey_token |-> NULL, onkey_address |-> NULL],
              !.token = NULL,
              !.smartAccountAddress = NULL,
              !.smartAccountClient = NoClient]

isAuthenticated(s) == s.token # NULL /\ s.smartAccountAddress # NULL
OnkeyClient_getAddress(s) == s.smartAccountAddress

(***************************************************************************)
(* OnkeyProvider.  Each of login, verifyOTP, sendTransaction and logout    *)
(* sets isLoading, awaits the client's call, and in its finally clears     *)
(* isLoading.  A call in flight is at the await it waits on: the backend   *)
(* ("fetch"), IndexedDB ("store", "getshare", "clear") or the smart        *)
(* account client ("send"); "hung" is an await whose promise is never      *)
(* settled.  The continuation of an await runs in the task that settles    *)
(* it, so an answer and what the call does with it are one step.           *)
(***************************************************************************)
OpKinds == {"login", "verifyOTP", "sendTransaction", "logout"}
InFlight(op) == op.pc \in {"fetch", "store", "getshare", "send", "clear", "hung"}
Settle(s, o, outcome) ==
    [s EXCEPT !.ops[o].pc = outcome, !.isLoading = FALSE]
VerifyResponses ==
    {[token |-> t, address |-> a, isNewUser |-> n, userShare |-> IF n THEN u ELSE NULL] :
        t \in Tokens, a \in AccountAddrs, n \in BOOLEAN, u \in ClientShares}

SdkStart(o, kind) ==
    LET s == [sdk EXCEPT !.isLoading = TRUE, !.ops[o] = [NoOp EXCEPT !.kind = kind]] IN
    /\ ~InFlight(sdk.ops[o])
    /\ sdk' = IF kind \in {"login", "verifyOTP"} THEN [s EXCEPT !.ops[o].pc = "fetch"]
              ELSE IF kind = "logout" THEN [s EXCEPT !.ops[o].pc = "clear"]
              ELSE IF s.smartAccountClient.set THEN [s EXCEPT !.ops[o].pc = "send"]
              ELSE IF s.smartAccountAddress = NULL THEN Settle(s, o, "rejected")
              ELSE [s EXCEPT !.ops[o].pc = "getshare"]
    /\ UNCHANGED <<users, sessions, otps, minted, reqs, now, ticks, env, rpc, hits, call,
                   up, chain>>

\* the backend answers /auth/login or /auth/verify
SdkFetchAnswer(o, ok, resp) ==
    LET op == sdk.ops[o]
        kept == [sdk EXCEPT !.ops[o].token = resp.token, !.ops[o].address = resp.address,
                            !.ops[o].isNewUser = resp.isNewUser,
                            !.ops[o].userShare = resp.userShare]
    IN
    /\ op.pc = "fetch"
    /\ sdk' = IF ~ok THEN Settle(sdk, o, "rejected")
              ELSE IF op.kind = "login" THEN Settle(sdk, o, "resolved")
              ELSE IF resp.isNewUser /\ resp.userShare # NULL
              THEN [kept EXCEPT !.ops[o].pc = "store"]
              ELSE Settle([saveSession(kept, resp.token, resp.address)
                               EXCEPT !.address = resp.address], o, "resolved")
    /\ UNCHANGED <<users, sessions, otps, minted, reqs, now, ticks, env, rpc, hits, call,
                   up, chain>>

\* OnkeyClient.logout inside the provider's logout, from clearUserShare's answer on
logout(s, o, opens) ==
    LET r == clearUserShare(s.idb, opens)
        t == [s EXCEPT !.idb = r.idb]
    IN  IF r.outcome = "pending" THEN [t EXCEPT !.ops[o].pc = "hung"]
        ELSE IF r.outcome = "rejected" THEN Settle(t, o, "rejected")
        ELSE Settle([clearSession(t) EXCEPT !.address = NULL], o, "resolved")

\* verifyOTP from storeUserShare's answer on
verifyOTPSaveFirst(s, o, opens) ==
    LET op == s.ops[o]
        r == storeUserShare(s.idb, op.userShare, opens)
        t == saveSession([s EXCEPT !.idb = r.idb], op.token, op.address)
    IN  IF r.outcome = "pending" THEN [t EXCEPT !.ops[o].pc = "hung"]
        ELSE IF r.outcome = "rejected" THEN Settle(t, o, "rejected")
        ELSE Settle([t EXCEPT !.address = op.address], o, "resolved")
verifyOTP(s, o, opens) ==
    LET op == s.ops[o]
        r == storeUserShare(s.idb, op.userShare, opens)
        t == [s EXCEPT !.idb = r.idb]
    IN  IF r.outcome = "pending" THEN [t EXCEPT !.ops[o].pc = "hung"]
        ELSE IF r.outcome = "rejected" THEN Settle(t, o, "rejected")
        ELSE Settle([saveSession(t, op.token, op.address) EXCEPT !.address = op.address],
                    o, "resolved")

\* getSmartAccount from getUserShare's answer on: the client is created for
\* the address the OnkeyClient holds at that moment
createSmartAccountClient(address) == [set |-> TRUE, address |-> address]
getSmartAccount(s, o, opens) ==
    LET r == getUserShare(s.idb, opens)
        t == [s EXCEPT !.idb = r.idb]
    IN  IF r.outcome = "pending" THEN [t EXCEPT !.ops[o].pc = "hung"]
        ELSE IF r.outcome = "rejected" \/ r.value = NULL THEN Settle(t, o, "rejected")
        ELSE [t EXCEPT !.smartAccountClient = createSmartAccountClient(t.smartAccountAddress),
                       !.ops[o].pc = "send"]

SdkIdb(o, opens) ==
    LET op == sdk.ops[o] IN
    /\ op.pc \in {"store", "getshare", "clear"}
    /\ sdk' = IF op.pc = "clear" THEN logout(sdk, o, opens)
              ELSE IF op.pc = "store" THEN verifyOTP(sdk, o, opens)
              ELSE getSmartAccount(sdk, o, opens)
    /\ UNCHANGED <<users, sessions, otps, minted, reqs, now, ticks, env, rpc, hits, call,
                   up, chain>>

\* smartAccount.sendTransaction: signs through signWithMPC, which reads the
\* stored share, and hands the operation to the bundler
SdkSendAnswer(o, ok) ==
    /\ sdk.ops[o].pc = "send"
    /\ ok => sdk.idb \in ClientShares
    /\ sdk' = Settle(sdk, o, IF ok THEN "resolved" ELSE "rejected")
    /\ UNCHANGED <<users, sessions, otps, minted, reqs, now, ticks, env, rpc, hits, call,
                   up, chain>>

\* a page load: the constructor's loadSession over what the browser holds,
\* then the provider's effect
Constructed(ls, idb) ==
    LET s == loadSession([NoSdk EXCEPT !.localStorage = ls, !.idb = idb]) IN
    [s EXCEPT !.address = IF isAuthenticated(s) THEN OnkeyClient_getAddress(s) ELSE NULL]
InitSdk ==
    /\ users = <<>>
    /\ sessions = {}
    /\ otps = <<>>
    /\ minted = {}
    /\ reqs = [r \in ReqIds |-> NoReq]
    /\ now = 0
    /\ ticks = 0
    /\ env = EnvConfigured
    /\ rpc = NoRpc
    /\ hits = NoHits
    /\ call = NoCall
    /\ up = NoUp
    /\ chain = NoChain
    /\ sdk \in {Constructed([onkey_token |-> t, onkey_address |-> a], idb) :
                   t \in Tokens \cup {NULL}, a \in AccountAddrs \cup {NULL},
                   idb \in {"nodb", "empty"} \cup ClientShares}

NextSdk ==
    \/ \E o \in OpIds, kind \in OpKinds : SdkStart(o, kind)
    \/ \E o \in OpIds, ok \in BOOLEAN, resp \in VerifyResponses : SdkFetchAnswer(o, ok, resp)
    \/ \E o \in OpIds, opens \in BOOLEAN : SdkIdb(o, opens)
    \/ \E o \in OpIds, ok \in BOOLEAN : SdkSendAnswer(o, ok)

SpecSdk == InitSdk /\ [][NextSdk]_vars

\* C26: in the step in which logout() resolves, the client is left with no
\* token and no address (isAuthenticated() false, getAddress() null), with
\* no cached smart account client, with no session item in localStorage, and
\* with a key-share store from which getUserShare() reads null; whatever
\* login, verifyOTP and sendTransaction calls came before.
C26_LogoutStep ==
    \A o \in OpIds :
        (/\ sdk.ops[o].kind = "logout"
         /\ sdk.ops[o].pc = "clear"
         /\ sdk'.ops[o].pc = "resolved")
        => /\ sdk'.token = NULL
           /\ sdk'.smartAccountAddress = NULL
           /\ ~isAuthenticated(sdk')
           /\ OnkeyClient_getAddress(sdk') = NULL
           /\ sdk'.smartAccountClient = NoClient
           /\ sdk'.localStorage = [onkey_token |-> NULL, onkey_address |-> NULL]
           /\ getUserShare(sdk'.idb, TRUE).outcome = "resolved"
           /\ getUserShare(sdk'.idb, TRUE).value = NULL
C26_LogoutClears == [][C26_LogoutStep]_vars

\* logout has resolved after a new user's verifyOTP stored a share and saved
\* the session: the share and the session are gone
C26_Witness ==
    \E o, p \in OpIds :
        /\ sdk.ops[o].kind = "logout" /\ sdk.ops[o].pc = "resolved"
        /\ sdk.ops[p].kind = "verifyOTP" /\ sdk.ops[p].pc = "resolved"
        /\ sdk.ops[p].isNewUser
        /\ sdk.token = NULL
        /\ sdk.idb = "empty"

\* C27: isAuthenticated() is true exactly when the client holds a token and
\* an address, and the client holds both or neither.
C27_TokenAndAddress ==
    /\ isAuthenticated(sdk) <=> (sdk.token \in Tokens /\ sdk.smartAccountAddress \in AccountAddrs)
    /\ (sdk.token = NULL) <=> (sdk.smartAccountAddress = NULL)
    /\ sdk.token # NULL =>
          sdk.localStorage = [onkey_token |-> sdk.token,
                              onkey_address |-> sdk.smartAccountAddress]

\* verifyOTP has resolved and the client is authenticated
C27_Witness ==
    /\ \E o \in OpIds : sdk.ops[o].kind = "verifyOTP" /\ sdk.ops[o].pc = "resolved"
    /\ isAuthenticated(sdk)

\* C28: isLoading is true exactly while at least one of the provider's
\* calls has started and not settled.
C28_IsLoadingReflects ==
    sdk.isLoading <=> \E o \in OpIds : InFlight(sdk.ops[o])

(***************************************************************************)
(* OnkeyAccountFactory.  getAddress is Create2.computeAddress over the     *)
(* factory's own address, the salt and the hash of the init code; the      *)
(* deployment new OnkeyAccount{salt: ...}(entryPoint, owner) puts the      *)
(* account at the CREATE2 address of the same three values.                *)
(***************************************************************************)
SIG_VALIDATION_FAILED == 1
Owners == {"o1", "o2"}
Salts == {0, 1}
Senders == Owners \cup {EntryPoint}
initCode(anEntryPoint, anOwner) == [entryPoint |-> anEntryPoint, owner |-> anOwner]
computeAddress(deployer, salt, code) == [deployer |-> deployer, salt |-> salt, initCode |-> code]
create2(deployer, salt, code) == [deployer |-> deployer, salt |-> salt, initCode |-> code]
getAddress(owner, salt) == computeAddress(Factory, salt, initCode(EntryPoint, owner))

\* OnkeyAccount's constructor
NewAccount(address, anEntryPoint, anOwner) ==
    [address |-> address, entryPoint |-> anEntryPoint, owner |-> anOwner, executed |-> 0]
Deployed(ch, address) == \E a \in ch.accounts : a.address = address

createAccountNoCheck(ch, owner, salt) ==
    LET predicted == getAddress(owner, salt)
        account == create2(Factory, salt, initCode(EntryPoint, owner))
    IN  [accounts |-> ch.accounts \cup
                        (IF Deployed(ch, account) THEN {}
                         ELSE {NewAccount(account, EntryPoint, owner)}),
         events |-> Append(ch.events, [account |-> account, owner |-> owner, salt |-> salt]),
         last |-> [NoTx EXCEPT !.op = "createAccount", !.owner = owner,
                               !.salt = salt, !.predicted = predicted, !.ret = account,
                               !.deployed = TRUE, !.emitted = TRUE]]
createAccount(ch, owner, salt) ==
    LET predicted == getAddress(owner, salt)
        account == create2(Factory, salt, initCode(EntryPoint, owner))
        tx == [NoTx EXCEPT !.op = "createAccount", !.owner = owner, !.salt = salt,
                           !.predicted = predicted]
    IN  IF Deployed(ch, predicted)
        THEN [ch EXCEPT !.last = [tx EXCEPT !.ret = predicted]]
        ELSE [accounts |-> ch.accounts \cup {NewAccount(account, EntryPoint, owner)},
              events |-> Append(ch.events,
                                [account |-> account, owner |-> owner, salt |-> salt]),
              last |-> [tx EXCEPT !.ret = account, !.deployed = TRUE, !.emitted = TRUE]]

(***************************************************************************)
(* OnkeyAccount.  A signature is held as who made it and over what;        *)
(* ECDSA.recover gives the maker when asked for the message signed, some   *)
(* unrelated address for another message, and reverts on a signature that  *)
(* is not well formed.  executed counts the calls the account has made.    *)
(***************************************************************************)
Hashes == {"h1"}
toEthSignedMessageHash(h) == [prefix |-> "Ethereum Signed Message", hash |-> h]
RawMessage(h) == [prefix |-> "", hash |-> h]
Signatures ==
    {[wellFormed |-> TRUE, by |-> s, over |-> m] :
        s \in Owners,
        m \in {toEthSignedMessageHash(h) : h \in Hashes} \cup {RawMessage("h1")}}
    \cup {[wellFormed |-> FALSE, by |-> "", over |-> RawMessage("")]}
recover(hash, signature) ==
    IF ~signature.wellFormed THEN [reverted |-> TRUE, signer |-> ""]
    ELSE IF signature.over = hash THEN [reverted |-> FALSE, signer |-> signature.by]
    ELSE [reverted |-> FALSE, signer |-> "unrelated"]

_requireFromAnyone(acc, sender) == TRUE
_requireFromEntryPointOrOwner(acc, sender) ==
    sender = acc.entryPoint \/ sender = acc.owner

_validateSignature(acc, signature, userOpHash) ==
    LET hash == toEthSignedMessageHash(userOpHash)
        r == recover(hash, signature)
    IN  IF r.reverted THEN [reverted |-> TRUE, validationData |-> 0, signer |-> ""]
        ELSE IF r.signer # acc.owner
        THEN [reverted |-> FALSE, validationData |-> SIG_VALIDATION_FAILED, signer |-> r.signer]
        ELSE [reverted |-> FALSE, validationData |-> 0, signer |-> r.signer]

\* execute (n = 1, lengths equal) and executeBatch: n calls, all succeeding or
\* the transaction reverted
executeBatch(ch, acc, sender, op, n, lengthsEqual, callsSucceed) ==
    LET tx == [NoTx EXCEPT !.op = op, !.sender = sender, !.account = acc.address,
                           !.owner = acc.owner]
        done == [acc EXCEPT !.executed = acc.executed + n]
    IN  IF ~_requireFromEntryPointOrOwner(acc, sender) \/ ~lengthsEqual \/ ~callsSucceed
        THEN [ch EXCEPT !.last = [tx EXCEPT !.reverted = TRUE]]
        ELSE [ch EXCEPT !.accounts = (ch.accounts \ {acc}) \cup {done},
                        !.last = [tx EXCEPT !.called = n]]

\* createAccount is external and open to any caller
CreateAccount(owner, salt) ==
    /\ chain' = createAccount(chain, owner, salt)
    /\ UNCHANGED <<users, sessions, otps, minted, reqs, now, ticks, env, rpc, hits, call,
                   up, sdk>>

Execute(acc, sender, callsSucceed) ==
    /\ acc \in chain.accounts
    /\ chain' = executeBatch(chain, acc, sender, "execute", 1, TRUE, callsSucceed)
    /\ \A a \in chain'.accounts : a.executed <= MaxExec
    /\ UNCHANGED <<users, sessions, otps, minted, reqs, now, ticks, env, rpc, hits, call,
                   up, sdk>>

ExecuteBatch(acc, sender, n, lengthsEqual, callsSucceed) ==
    /\ acc \in chain.accounts
    /\ chain' = executeBatch(chain, acc, sender, "executeBatch", n, lengthsEqual, callsSucceed)
    /\ \A a \in chain'.accounts : a.executed <= MaxExec
    /\ UNCHANGED <<users, sessions, otps, minted, reqs, now, ticks, env, rpc, hits, call,
                   up, sdk>>

\* validateUserOp reaching _validateSignature
ValidateSignature(acc, signature, userOpHash) ==
    LET v == _validateSignature(acc, signature, userOpHash) IN
    /\ acc \in chain.accounts
    /\ chain' = [chain EXCEPT !.last =
                    [NoTx EXCEPT !.op = "_validateSignature", !.sender = EntryPoint,
                                 !.account = acc.address, !.owner = acc.owner,
                                 !.reverted = v.reverted, !.validationData = v.validationData,
                                 !.signer = v.signer]]
    /\ UNCHANGED <<users, sessions, otps, minted, reqs, now, ticks, env, rpc, hits, call,
                   up, sdk>>

NextChain ==
    \/ \E owner \in Owners, salt \in Salts : CreateAccount(owner, salt)
    \/ \E acc \in chain.accounts, sender \in Senders, callsSucceed \in BOOLEAN :
          Execute(acc, sender, callsSucceed)
    \/ \E acc \in chain.accounts, sender \in Senders, n \in 1..MaxExec,
          outcome \in {<<TRUE, TRUE>>, <<TRUE, FALSE>>, <<FALSE, TRUE>>} :
          ExecuteBatch(acc, sender, n, outcome[1], outcome[2])
    \/ \E acc \in chain.accounts, signature \in Signatures, userOpHash \in Hashes :
          ValidateSignature(acc, signature, userOpHash)

SpecChain == Init /\ [][NextChain]_vars

\* C29: createAccount(owner, salt) returns getAddress(owner, salt); when an
\* account is deployed there already it deploys nothing and emits nothing;
\* so for each (owner, salt) there is at most one account, at that address,
\* and exactly one AccountCreated event when it exists.
EventsFor(owner, salt) ==
    {i \in 1..Len(chain.events) :
        chain.events[i].owner = owner /\ chain.events[i].salt = salt}
C29_State ==
    /\ chain.last.op = "createAccount" =>
          /\ chain.last.ret = getAddress(chain.last.owner, chain.last.salt)
          /\ Deployed(chain, chain.last.ret)
    /\ \A owner \in Owners, salt \in Salts :
          /\ Cardinality({a \in chain.accounts : a.address = getAddress(owner, salt)}) <= 1
          /\ Cardinality(EventsFor(owner, salt))
                = (IF Deployed(chain, getAddress(owner, salt)) THEN 1 ELSE 0)
          /\ \A i \in EventsFor(owner, salt) :
                chain.events[i].account = getAddress(owner, salt)
    /\ \A a \in chain.accounts :
          \E salt \in Salts : a.address = getAddress(a.owner, salt)
C29_Step ==
    (chain'.last.op = "createAccount" /\ chain' # chain) =>
        IF Deployed(chain, getAddress(chain'.last.owner, chain'.last.salt))
        THEN /\ ~chain'.last.deployed /\ ~chain'.last.emitted
             /\ chain'.accounts = chain.accounts
             /\ chain'.events = chain.events
        ELSE /\ chain'.last.deployed /\ chain'.last.emitted
             /\ Len(chain'.events) = Len(chain.events) + 1
C29_CreateAccount == []C29_State /\ [][C29_Step]_vars

\* createAccount was called for a pair whose account existed: it returned the
\* account and left one event for the pair
C29_Witness ==
    /\ chain.last.op = "createAccount"
    /\ ~chain.last.deployed
    /\ chain.last.ret = getAddress(chain.last.owner, chain.last.salt)
    /\ Cardinality(EventsFor(chain.last.owner, chain.last.salt)) = 1

\* C30: execute and executeBatch make their calls only for msg.sender the
\* EntryPoint or the owner and revert for any other sender;
\* _validateSignature returns 0 only when the signer recovered from the
\* Ethereum-signed userOpHash is the owner and SIG_VALIDATION_FAILED for any
\* other signer; an account's owner is the one it was constructed with and
\* never changes.
C30_State ==
    /\ chain.last.op \in {"execute", "executeBatch"} =>
          /\ chain.last.called > 0 => chain.last.sender \in {EntryPoint, chain.last.owner}
          /\ chain.last.sender \notin {EntryPoint, chain.last.owner} =>
                chain.last.reverted /\ chain.last.called = 0
    /\ chain.last.op = "_validateSignature" /\ ~chain.last.reverted =>
          /\ chain.last.validationData = 0 <=> chain.last.signer = chain.last.owner
          /\ chain.last.validationData # 0 => chain.last.validationData = SIG_VALIDATION_FAILED
    /\ \A a \in chain.accounts : a.owner = a.address.initCode.owner
C30_Step ==
    /\ \A a \in chain.accounts :
          \E b \in chain'.accounts :
              /\ b.address = a.address /\ b.owner = a.owner
              /\ b.executed # a.executed =>
                    /\ chain'.last.sender \in {EntryPoint, a.owner}
                    /\ chain'.last.op \in {"execute", "executeBatch"}
C30_Authorization == []C30_State /\ [][C30_Step]_vars

\* an execute by a sender that is neither the EntryPoint nor the account's
\* owner was reverted, on an account that has executed a call for its owner
C30_Witness ==
    /\ chain.last.op = "execute"
    /\ chain.last.sender \in Owners \ {chain.last.owner}
    /\ chain.last.reverted
    /\ \E a \in chain.accounts : a.address = chain.last.account /\ a.executed > 0


(***************************************************************************)
(* The budget of the OTP rate limit.                                       *)
(***************************************************************************)
\* C31: the rate limit's budget of an email is consumed by the POST
\* /auth/login requests for it (each one that is let through takes one unit
\* of the email's budget), and by no step of a POST /auth/verify request and
\* no GET /auth/me request.
LoginSent == Len(otps') = Len(otps) + 1
C31_Step ==
    /\ LoginSent => hits'[otps'[Len(otps')].email] # hits[otps'[Len(otps')].email]
    /\ (reqs' # reqs \/ rpc'.route = "me") => hits' = hits
C31_OtpBudgetOnly == [][C31_Step]_vars


(***************************************************************************)
(* generateMPCKeyShares on its own: calls with an email or none, a Stytch  *)
(* token or none, under each behaviour of the remote signer and each       *)
(* environment; call keeps the arguments and the result of the last call,  *)
(* minted the identities a PKP was claimed for (a lookup can find a PKP    *)
(* only for those).                                                        *)
(***************************************************************************)
GenEmails == {"", "a@x"}
GenTokens == {NoJwt, JwtA, [sub |-> "b@x", mid |-> 2]}
GenerateCall(email, stytchToken, gen) ==
    LET res == generateMPCKeyShares(email, stytchToken, env, gen, 1) IN
    /\ gen.fetch = "found" => stytchToken.sub \in minted
    /\ minted' = IF res.claimed THEN minted \cup {stytchToken.sub} ELSE minted
    /\ call' = [op |-> "generateMPCKeyShares", email |-> email,
                stytchToken |-> stytchToken, gen |-> gen, res |-> res]
    /\ rpc' = NoRpc
    /\ UNCHANGED <<users, sessions, otps, reqs, now, ticks, env, hits, up, sdk, chain>>
NextGen ==
    \E email \in GenEmails, stytchToken \in GenTokens, gen \in GenBehaviours :
        GenerateCall(email, stytchToken, gen)
SpecGen == InitEnv /\ [][NextGen]_vars

\* C32 as stated: of the calls that reach the lookup of existing PKPs,
\* claimKeyId is invoked exactly by those whose lookup is unavailable, fails,
\* returns no PKP or returns a PKP without token id or public key.
GenCalled == call.op = "generateMPCKeyShares"
ReachedLookup ==
    /\ GenCalled
    /\ call.gen.connects
    /\ call.email # ""
    /\ call.stytchToken # NoJwt
ClaimNeeded == call.gen.fetch \in {"unavailable", "throws", "empty", "partial"}
C32_Original == ReachedLookup => (call.res.claimCalls = 1 <=> ClaimNeeded)

\* C32: generateMPCKeyShares looks up the existing PKPs first and claims
\* only if needed: claimKeyId is invoked (once) exactly when the lookup is
\* unavailable, fails, returns no PKP or returns a PKP without token id or
\* public key, and the client exposes claimKeyId; a call that finds a usable
\* PKP returns that PKP's id and public key and makes no claim; a call that
\* never reaches the lookup makes no claim; on every successful return both
\* shares decrypt to a record carrying the returned pkpId.
C32_ClaimOnlyIfNeeded ==
    GenCalled =>
        LET res == call.res
            sub == call.stytchToken.sub
            user == decryptShare(res.userShare, env.user)
            server == decryptShare(res.serverShare, env.server)
        IN  /\ ReachedLookup =>
                   (res.claimCalls = 1 <=> (ClaimNeeded /\ call.gen.claim # "nomethod"))
            /\ res.claimCalls \in {0, 1}
            /\ ~ReachedLookup => res.claimCalls = 0 /\ res.fetchCalls = 0 /\ ~res.ok
            /\ res.claimed => res.claimCalls = 1
            /\ (res.ok /\ ~ClaimNeeded) =>
                   /\ res.pkpId = PkpIdOf(sub)
                   /\ res.publicKey = PkpPubOf(sub)
                   /\ res.claimCalls = 0
            /\ res.ok =>
                   /\ user.ok /\ user.text.pkpId = res.pkpId
                   /\ server.ok /\ server.text.pkpId = res.pkpId
C32_Witness ==
    /\ ReachedLookup
    /\ call.gen.fetch = "found"
    /\ call.res.ok
    /\ call.res.claimCalls = 0
    /\ call.stytchToken.sub \in minted


(***************************************************************************)
(* signWithMPC on its own: calls with a user share and a server share      *)
(* drawn from the shares of SpecSign and from server shares whose record   *)
(* lacks the public key, the address or the key id, under each behaviour   *)
(* of the remote signer and each environment; call keeps the arguments and *)
(* the result of the call.                                                 *)
(***************************************************************************)
MpcUserShares == {GoodUserShare} \cup BadUserShares \cup OddUserShares
MpcServerShares ==
    {GoodServerShare, MockServerShare, EmptyShare}
    \cup BadServerShares
    \cup {encryptShare(p, "ks", 1).val :
              p \in {NoPlain,
                     ServerPlain("pkp-b", "pub-b"),
                     ServerPlain("", "pub-a"),
                     ServerPlain("pkp-a", ""),
                     [ServerPlain("pkp-a", "pub-a") EXCEPT !.pub = ""]}}
SignWithMpcCall(userShare, serverShare, lit) ==
    /\ call = NoCall
    /\ call' = [op |-> "signWithMPC", userShare |-> userShare,
                serverShare |-> serverShare, lit |-> lit,
                res |-> signWithMPC(userShare, serverShare, "h1", env, lit)]
    /\ rpc' = NoRpc
    /\ UNCHANGED <<users, sessions, otps, minted, reqs, now, ticks, env, hits, up, sdk, chain>>
NextMpc ==
    \E userShare \in MpcUserShares, serverShare \in MpcServerShares, lit \in LitBehaviours :
        SignWithMpcCall(userShare, serverShare, lit)
SpecMpc == InitEnv /\ [][NextMpc]_vars

\* C33: signWithMPC invokes pkpSign only when both shares decrypted with the
\* configured keys and parsed as JSON, both carry a non-empty pkpId, the two
\* pkpIds are equal, neither type contains 'mock' and the server share carries
\* a public key (pkpPublicKey, or pkpEthAddress in its place); when one of
\* these fails the call throws, pkpSign is not invoked and, the client being
\* connected and exposing pkpSign, the error is the one of the first
\* condition that failed.
MpcCalled == call.op = "signWithMPC"
UserText == call.userShare.pt
ServerText == call.serverShare.pt
Decrypts(c, key) == key # NULL /\ decryptShare(c, key).ok
FirstFailure ==
    IF ~Decrypts(call.userShare, env.user) THEN "USER_SHARE_DECRYPT_FAILED"
    ELSE IF ~Decrypts(call.serverShare, env.server) THEN "SERVER_SHARE_DECRYPT_FAILED"
    ELSE IF ~UserText.json THEN "USER_SHARE_JSON_INVALID"
    ELSE IF ~ServerText.json THEN "SERVER_SHARE_JSON_INVALID"
    ELSE IF UserText.pkpId = "" \/ ServerText.pkpId = "" THEN "PKP_ID_MISSING_IN_SHARES"
    ELSE IF UserText.pkpId # ServerText.pkpId THEN "PKP_ID_MISMATCH"
    ELSE IF TypeHasMock(UserText.type) \/ TypeHasMock(ServerText.type) THEN "MOCK_PKP_REFUSED"
    ELSE IF ServerText.pub = "" /\ ServerText.eth = "" THEN "PKP_PUBLIC_KEY_MISSING"
    ELSE ""
C33_GuardedSigner ==
    MpcCalled =>
        /\ call.res.calls \in {0, 1}
        /\ call.res.calls = 1 => FirstFailure = ""
        /\ call.res.ok => call.res.calls = 1
        /\ FirstFailure # "" =>
              /\ ~call.res.ok
              /\ call.res.calls = 0
              /\ call.res.sig = NoSig
              /\ (/\ call.lit.connects
                  /\ (call.lit.hasPkpSign \/ FirstFailure # "PKP_PUBLIC_KEY_MISSING"))
                 => call.res.err = FirstFailure
C33_Witness ==
    /\ MpcCalled
    /\ env = EnvConfigured
    /\ call.lit = LitHealthy
    /\ call.userShare = GoodUserShare
    /\ ServerText = ServerPlain("pkp-a", "")
    /\ call.res.err = "PKP_PUBLIC_KEY_MISSING"
    /\ call.res.calls = 0


(***************************************************************************)
(* POST /mpc/sign with two users in the store: a@x (id 1) and b@x (id 2),  *)
(* each with the key record of its own PKP and its own server share, or    *)
(* with the share column empty.  A client holds a session of either user,  *)
(* a forged one or none, and presents the user share of either user or a   *)
(* share naming the other user's PKP.                                      *)
(***************************************************************************)
JwtB == [sub |-> "b@x", mid |-> 2]
ServerShareOf(email) ==
    encryptShare(ServerPlain(PkpIdOf(email), PkpPubOf(email)), "ks", 1).val
UserShareOf(email, jwt) == encryptShare(UserPlain(PkpIdOf(email), jwt), "ku", 1).val
IsoRow(email, share) ==
    [NewUserRow(email) EXCEPT !.pkpId = PkpIdOf(email), !.pkpPublicKey = PkpPubOf(email),
                              !.pkpEthAddress = PkpPubOf(email),
                              !.encryptedServerShare = share,
                              !.smartAccountAddress = PkpPubOf(email)]
IsoStores ==
    {<<IsoRow("a@x", sa), IsoRow("b@x", sb)>> :
        sa \in {ServerShareOf("a@x"), EmptyShare}, sb \in {ServerShareOf("b@x"), EmptyShare}}
TokenB == createSessionToken(2, "b@x", 0)
IsoHeaders ==
    {[kind |-> "bearer", tok |-> t] : t \in {TokenA, TokenB, Forge(TokenA), Forge(TokenB)}}
    \cup {[kind |-> "missing", tok |-> NoToken]}
IsoBodies ==
    {[valid |-> TRUE, userOpHash |-> "h1", userShare |-> u] :
        u \in {UserShareOf("a@x", JwtA), UserShareOf("b@x", JwtB),
               UserShareOf("b@x", JwtA), UserShareOf("a@x", JwtB)}}
    \cup {NoBody}
InitIso ==
    /\ users \in IsoStores
    /\ env \in SignEnvs
    /\ sessions = {TokenA, TokenB}
    /\ otps = <<>>
    /\ minted = {"a@x", "b@x"}
    /\ reqs = [r \in ReqIds |-> NoReq]
    /\ now = 0
    /\ ticks = 0
    /\ rpc = NoRpc
    /\ hits = NoHits
    /\ call = NoCall
    /\ up = NoUp
    /\ sdk = NoSdk
    /\ chain = NoChain
NextIso ==
    \/ \E hdr \in IsoHeaders, body \in IsoBodies, lit \in LitBehaviours : Sign(hdr, body, lit)
    \/ \E d \in {1, JWT_EXPIRY} : Tick(d)
SpecIso == InitIso /\ [][NextIso]_vars

\* The two halves of the isolation of signing: a foreign user share is
\* refused, and the remote signer is reached with the caller's own share.
C34_Refused ==
    (/\ rpc.route = "sign"
     /\ rpc.reply.handlerRan
     /\ rpc.body.userShare.pt.pkpId # users[rpc.hdr.tok.userId].pkpId)
    => (~rpc.reply.success /\ rpc.reply.pkpSignCalls = 0 /\ rpc.reply.signature = NoSig)
C34_Signed ==
    (rpc.route = "sign" /\ rpc.reply.pkpSignCalls > 0) =>
        LET u == rpc.hdr.tok.userId
            own == users[u].encryptedServerShare
        IN  /\ rpc.reply.handlerRan
            /\ rpc.hdr.kind = "bearer" /\ rpc.hdr.tok \in sessions
            /\ own # EmptyShare
            /\ rpc.body.userShare.pt.pkpId = own.pt.pkpId
            /\ rpc.body.userShare.pt.pkpId = users[u].pkpId
            /\ rpc.reply.success =>
                   /\ rpc.reply.signature.pub = own.pt.pub
                   /\ rpc.reply.signature.pub = users[u].pkpPublicKey
                   /\ \A v \in 1..Len(users) :
                          v # u => rpc.reply.signature.pub # users[v].pkpPublicKey
C35_Step ==
    \A r \in ReqIds :
        (reqs[r].pc = "sess" /\ reqs'[r].pc = "done") =>
            /\ reqs'[r].resp.success
            /\ reqs'[r].resp.token \notin sessions
            /\ sessions' = sessions \cup {reqs'[r].resp.token}
C35_SessionNeverCollides == [][C35_Step]_vars


\* C36: between requests (no /auth/verify request is being handled), a
\* user's smartAccountAddress is set if and only if its PKP fields (pkpId,
\* pkpPublicKey, pkpEthAddress) are set, so that the new-user test
\* (smartAccountAddress absent) is true exactly for the users without a key
\* record.
PkpFieldsSet(row) ==
    row.pkpId # NULL /\ row.pkpPublicKey # NULL /\ row.pkpEthAddress # NULL
C36_NewUserTestConsistent ==
    Quiescent =>
        \A i \in 1..Len(users) :
            (users[i].smartAccountAddress # NULL) <=> PkpFieldsSet(users[i])


(***************************************************************************)
(* createStytchEmailOTP, one step per awaited provider call.  A send is    *)
(* answered with a 2xx body carrying email_id, method_id, both or neither, *)
(* with a failure whose error_type is email_not_found, with another        *)
(* failure, or the fetch (or the reading of its body) throws; the creation *)
(* of the provider user is answered 2xx, with a failure, or throws.  call  *)
(* holds the calls made so far: the awaited request, the numbers of send   *)
(* and create requests issued, the answers received and the outcome.       *)
(***************************************************************************)
StytchIds == 1..MaxUp
MethodIds == {"", "id-1"}
SendAnswers ==
    {[ok |-> TRUE, error_type |-> "", email_id |-> e, method_id |-> m, threw |-> FALSE] :
        e \in MethodIds, m \in {"", "id-2"}}
    \cup {[ok |-> FALSE, error_type |-> t, email_id |-> "", method_id |-> "", threw |-> FALSE] :
             t \in {"email_not_found", "other"}}
    \cup {[ok |-> FALSE, error_type |-> "", email_id |-> "", method_id |-> "", threw |-> TRUE]}
CreateAnswers ==
    {[ok |-> TRUE, error_type |-> "", email_id |-> "", method_id |-> "", threw |-> FALSE],
     [ok |-> FALSE, error_type |-> "other", email_id |-> "", method_id |-> "", threw |-> FALSE],
     [ok |-> FALSE, error_type |-> "", email_id |-> "", method_id |-> "", threw |-> TRUE]}
NoAnswer == [ok |-> FALSE, error_type |-> "", email_id |-> "", method_id |-> "", threw |-> FALSE]
NoStytch ==
    [pc |-> "idle", email |-> "", sends |-> 0, creates |-> 0, answered |-> 0,
     first |-> NoAnswer, created |-> NoAnswer, last |-> NoAnswer,
     returned |-> FALSE, method_id |-> "", error |-> ""]
StytchThrow(s, e) == [s EXCEPT !.pc = "done", !.error = e]
sendOtp(s) == [s EXCEPT !.pc = "send", !.sends = s.sends + 1]
\* lines 185-203: after the send whose answer decides the outcome
stytchFinish(s, data) ==
    LET method_id == IF data.email_id # "" THEN data.email_id ELSE data.method_id IN
    IF data.threw THEN StytchThrow(s, "fetch failed")
    ELSE IF ~data.ok THEN StytchThrow(s, "Failed to send OTP")
    ELSE IF method_id = "" THEN StytchThrow(s, "No method_id returned from Stytch")
    ELSE [s EXCEPT !.pc = "done", !.returned = TRUE, !.method_id = method_id]
\* the continuation of createStytchEmailOTP when the awaited call has ended
createStytchEmailOTPLoop(s, data) ==
    LET t == [s EXCEPT !.answered = s.answered + 1] IN
    IF s.pc = "send"
    THEN LET u == [t EXCEPT !.last = data,
                            !.first = IF s.sends = 1 THEN data ELSE s.first] IN
         IF ~data.threw /\ ~data.ok /\ data.error_type = "email_not_found"
         THEN [u EXCEPT !.pc = "create", !.creates = s.creates + 1]
         ELSE stytchFinish(u, data)
    ELSE LET u == [t EXCEPT !.created = data] IN
         IF data.threw THEN StytchThrow(u, "fetch failed")
         ELSE IF ~data.ok THEN StytchThrow(u, "Failed to create Stytch user")
         ELSE sendOtp(u)
createStytchEmailOTP(s, data) ==
    LET t == [s EXCEPT !.answered = s.answered + 1] IN
    IF s.pc = "send"
    THEN LET u == [t EXCEPT !.last = data,
                            !.first = IF s.sends = 1 THEN data ELSE s.first] IN
         IF s.sends = 1 /\ ~data.threw /\ ~data.ok /\ data.error_type = "email_not_found"
         THEN [u EXCEPT !.pc = "create", !.creates = s.creates + 1]
         ELSE stytchFinish(u, data)
    ELSE LET u == [t EXCEPT !.created = data] IN
         IF data.threw THEN StytchThrow(u, "fetch failed")
         ELSE IF ~data.ok THEN StytchThrow(u, "Failed to create Stytch user")
         ELSE sendOtp(u)

StytchBegin(c, email) ==
    /\ call[c].pc = "idle"
    /\ IF c = 1 THEN TRUE ELSE call[c - 1].pc # "idle"
    /\ call' = [call EXCEPT ![c] = sendOtp([NoStytch EXCEPT !.email = email])]
    /\ UNCHANGED <<users, sessions, otps, minted, reqs, now, ticks, env, rpc, hits,
                   up, sdk, chain>>
StytchAnswer(c, data) ==
    /\ call[c].pc \in {"send", "create"}
    /\ data \in (IF call[c].pc = "send" THEN SendAnswers ELSE CreateAnswers)
    /\ call' = [call EXCEPT ![c] = createStytchEmailOTP(call[c], data)]
    /\ UNCHANGED <<users, sessions, otps, minted, reqs, now, ticks, env, rpc, hits,
                   up, sdk, chain>>
InitStytch ==
    /\ users = <<>>
    /\ sessions = {}
    /\ otps = <<>>
    /\ minted = {}
    /\ reqs = [r \in ReqIds |-> NoReq]
    /\ now = 0
    /\ ticks = 0
    /\ env = EnvConfigured
    /\ rpc = NoRpc
    /\ hits = NoHits
    /\ call = [c \in StytchIds |-> NoStytch]
    /\ up = NoUp
    /\ sdk = NoSdk
    /\ chain = NoChain
NextStytch ==
    \/ \E c \in StytchIds, email \in Emails : StytchBegin(c, email)
    \/ \E c \in StytchIds, data \in SendAnswers \cup CreateAnswers : StytchAnswer(c, data)
SpecStytch == InitStytch /\ [][NextStytch]_vars

\* C37: a call of createStytchEmailOTP issues at most two send requests and
\* one create request and is over once these are answered; the create
\* request is issued only after the first send failed with error_type
\* email_not_found, the second send only after the create succeeded; the
\* call returns a method_id only if its last send succeeded and carried an
\* id (that id is the one returned), and otherwise throws.
NotFound(data) == ~data.threw /\ ~data.ok /\ data.error_type = "email_not_found"
C37_BoundedProviderCalls ==
    \A c \in StytchIds :
        LET s == call[c] IN
        /\ s.sends \in 0..2
        /\ s.creates \in 0..1
        /\ s.pc # "idle" => s.sends >= 1
        /\ s.creates = 1 <=> (s.answered >= 1 /\ NotFound(s.first))
        /\ s.sends = 2 <=> (s.creates = 1 /\ s.answered >= 2 /\ s.created.ok)
        /\ s.answered <= s.sends + s.creates
        /\ s.answered = 3 => s.pc = "done"
        /\ s.pc = "done" =>
              /\ s.answered = s.sends + s.creates
              /\ s.returned <=> s.error = ""
              /\ s.returned <=>
                     (/\ s.answered = s.sends + s.creates
                      /\ s.last.ok
                      /\ (s.last.email_id # "" \/ s.last.method_id # ""))
              /\ s.returned =>
                     /\ s.method_id # ""
                     /\ s.method_id \in {s.last.email_id, s.last.method_id}
              /\ ~s.returned => s.method_id = ""
C37_Witness ==
    \E c \in StytchIds :
        /\ call[c].pc = "done"
        /\ call[c].sends = 2
        /\ call[c].creates = 1
        /\ NotFound(call[c].first)
        /\ call[c].returned
        /\ call[c].method_id = "id-1"


\* C38: a verifyOTP call that fails leaves the client as it was: in the step
\* in which the call is rejected (the /auth/verify request failed or was
\* answered success=false, or the user share could not be stored) or comes
\* to wait for ever, token, smartAccountAddress and the localStorage
\* entries are unchanged, and a failed request leaves the stored user share
\* unchanged too; the step that saves the session of a new user whose
\* response carries a user share is one in which that share is in the store.
ClientSession(s) == <<s.token, s.smartAccountAddress, s.localStorage>>
C38_Step ==
    \A o \in OpIds :
        sdk.ops[o].kind = "verifyOTP" =>
            /\ (sdk.ops[o].pc = "fetch" /\ sdk'.ops[o].pc = "rejected") =>
                   /\ ClientSession(sdk') = ClientSession(sdk)
                   /\ sdk'.idb = sdk.idb
                   /\ sdk'.smartAccountClient = sdk.smartAccountClient
            /\ (sdk.ops[o].pc = "store" /\ sdk'.ops[o].pc \in {"rejected", "hung"}) =>
                   ClientSession(sdk') = ClientSession(sdk)
            /\ (/\ InFlight(sdk.ops[o])
                /\ sdk'.ops[o] # sdk.ops[o]
                /\ ClientSession(sdk') # ClientSession(sdk)) =>
                   /\ sdk'.ops[o].pc = "resolved"
                   /\ ClientSession(sdk') =
                          <<sdk'.ops[o].token, sdk'.ops[o].address,
                            [onkey_token |-> sdk'.ops[o].token,
                             onkey_address |-> sdk'.ops[o].address]>>
                   /\ (sdk'.ops[o].isNewUser /\ sdk'.ops[o].userShare # NULL) =>
                          /\ sdk.ops[o].pc = "store"
                          /\ sdk'.idb = sdk'.ops[o].userShare
C38_FailedVerifyChangesNothing == [][C38_Step]_vars
C38_Witness ==
    \E o \in OpIds :
        /\ sdk.ops[o].kind = "verifyOTP"
        /\ sdk.ops[o].pc = "rejected"
        /\ sdk.ops[o].token = NULL
        /\ sdk.token = "t1"
        /\ sdk.smartAccountAddress = "0xA"
        /\ sdk.idb \in ClientShares

\* C39: whenever the OnkeyClient holds a cached smart account client, that
\* client's account address is the current smartAccountAddress.
C39_CachedClientIsCurrent ==
    sdk.smartAccountClient.set => sdk.smartAccountClient.address = sdk.smartAccountAddress

====
